---------------------------- MODULE Spec2Model ----------------------------
(***************************************************************************)
(* A model of the QUASAR state-vector simulator (crates homaya-core and    *)
(* homaya-sim): complex arithmetic, the gate catalog, the amplitude store  *)
(* (StateVector), the circuit builder and the circuit executor             *)
(* (Simulator).                                                            *)
(*                                                                         *)
(* Numbers.  The program computes on f64.  The model computes on exact     *)
(* numbers: a finite value is an element of the field Q(sqrt 2), next to   *)
(* the three non-finite values of f64 (Inf, -Inf, NaN).  Rounding of       *)
(* finite results and the sign of zero are not modelled; equality of       *)
(* amplitudes in the formulas below is equality of these exact values.     *)
(* An operation whose exact result lies outside Q(sqrt 2) (the square      *)
(* root of 3, say) has no value in the model: evaluating it is an error,   *)
(* so every behaviour of the model stays inside the field.                 *)
(***************************************************************************)
EXTENDS Integers, Sequences, FiniteSets, TLC

----------------------------------------------------------------------------
(* Integer helpers                                                         *)

Abs(n) == IF n < 0 THEN -n ELSE n

RECURSIVE GCD(_, _)
GCD(a, b) == IF b = 0 THEN Abs(a) ELSE GCD(b, a % Abs(b))

RECURSIVE Pow2(_)
Pow2(n) == IF n = 0 THEN 1 ELSE 2 * Pow2(n - 1)

(* bit q of the index i                                                    *)
Bit(i, q) == (i \div Pow2(q)) % 2

(* i | (1 << q)                                                            *)
OrBit(i, q) == IF Bit(i, q) = 1 THEN i ELSE i + Pow2(q)

(* i with bit q flipped                                                    *)
FlipBit(i, q) == IF Bit(i, q) = 1 THEN i - Pow2(q) ELSE i + Pow2(q)

(* the integer square root of n >= 0, by Newton's iteration from x         *)
RECURSIVE Newton(_, _)
Newton(n, x) ==
    IF (x + n \div x) \div 2 >= x THEN x ELSE Newton(n, (x + n \div x) \div 2)
ISqrt(n) == IF n < 2 THEN n ELSE Newton(n, n)
IsSquare(n) == ISqrt(n) * ISqrt(n) = n

----------------------------------------------------------------------------
(* The field Q(sqrt 2): <<p, q, m>> is (p + q*sqrt2) / m, m > 0, lowest    *)
(* terms.                                                                  *)

FReduce(p, q, m, g) ==
    IF m < 0 THEN <<(-p) \div g, (-q) \div g, (-m) \div g>>
    ELSE <<p \div g, q \div g, m \div g>>
FNorm(p, q, m) == FReduce(p, q, m, GCD(GCD(p, q), m))

FZero == <<0, 0, 1>>
FOne == <<1, 0, 1>>
FInt(n) == <<n, 0, 1>>
FRat(n, d) == FNorm(n, 0, d)

(* the sum over the least common denominator x[3] * (y[3] / g)             *)
FAddOver(x, y, g) ==
    FNorm(x[1] * (y[3] \div g) + y[1] * (x[3] \div g),
          x[2] * (y[3] \div g) + y[2] * (x[3] \div g),
          x[3] * (y[3] \div g))
FAdd(x, y) == FAddOver(x, y, GCD(x[3], y[3]))
FNeg(x) == <<-x[1], -x[2], x[3]>>
FSub(x, y) == FAdd(x, FNeg(y))
FMul(x, y) == FNorm(x[1] * y[1] + 2 * x[2] * y[2], x[1] * y[2] + x[2] * y[1], x[3] * y[3])

(* sign of p - q*sqrt2 for p, q >= 0, not both 0: for q < p < 2q it is     *)
(* the opposite of the sign of (2q - p) - (p - q)*sqrt2                    *)
RECURSIVE SignVsRoot2(_, _)
SignVsRoot2(p, q) ==
    IF q = 0 THEN 1
    ELSE IF p >= 2 * q THEN 1
    ELSE IF p <= q THEN -1
    ELSE -SignVsRoot2(2 * q - p, p - q)

(* sign of p + q*sqrt2                                                     *)
FSign(x) ==
    IF x[1] = 0 /\ x[2] = 0 THEN 0
    ELSE IF x[1] >= 0 /\ x[2] >= 0 THEN 1
    ELSE IF x[1] <= 0 /\ x[2] <= 0 THEN -1
    ELSE IF x[1] > 0 THEN SignVsRoot2(x[1], -x[2])
    ELSE -SignVsRoot2(-x[1], x[2])

(* 1 / x, x # 0: (p - q*sqrt2) * m / (p^2 - 2q^2)                          *)
FInv(x) == FNorm(x[1] * x[3], -(x[2] * x[3]), x[1] * x[1] - 2 * x[2] * x[2])
FDiv(x, y) == FMul(x, FInv(y))
FLess(x, y) == FSign(FSub(y, x)) = 1

(* a value no operation of the model can represent: evaluating it is an    *)
(* error                                                                   *)
Unrepresentable == CHOOSE x \in {} : TRUE

(* the square root of a positive rational p/m: sqrt(p*m) / m when p*m is   *)
(* a square, sqrt(2*p*m) * sqrt2 / (2*m) when 2*p*m is                     *)
FSqrt(x) ==
    IF x[2] # 0 THEN Unrepresentable
    ELSE IF IsSquare(x[1] * x[3]) THEN FRat(ISqrt(x[1] * x[3]), x[3])
    ELSE IF IsSquare(2 * x[1] * x[3]) THEN
        FNorm(0, ISqrt(2 * x[1] * x[3]), 2 * x[3])
    ELSE Unrepresentable

----------------------------------------------------------------------------
(* f64 values.  [k |-> "fin", v] is the real v in Q(sqrt 2); k = "inf",    *)
(* "ninf", "nan" are the non-finite values.  Every operation returns the   *)
(* exact result.                                                           *)

Fin(v) == [k |-> "fin", v |-> v]
RInf == [k |-> "inf", v |-> FZero]
RNegInf == [k |-> "ninf", v |-> FZero]
RNaN == [k |-> "nan", v |-> FZero]
RZero == Fin(FZero)
ROne == Fin(FOne)
RInt(n) == Fin(FInt(n))
RRat(n, d) == Fin(FRat(n, d))

IsFinite(x) == x.k = "fin"

(* the sign of a value: -1, 0, 1 (finite or infinite, not NaN)             *)
RSign(x) ==
    IF x.k = "inf" THEN 1 ELSE IF x.k = "ninf" THEN -1 ELSE FSign(x.v)

(* the infinity of sign s, NaN for s = 0                                   *)
Signed(s) == IF s = 0 THEN RNaN ELSE IF s > 0 THEN RInf ELSE RNegInf

RNeg(x) ==
    IF x.k = "fin" THEN Fin(FNeg(x.v))
    ELSE IF x.k = "inf" THEN RNegInf
    ELSE IF x.k = "ninf" THEN RInf
    ELSE RNaN

RAdd(x, y) ==
    IF x.k = "fin" /\ y.k = "fin" THEN Fin(FAdd(x.v, y.v))
    ELSE IF x.k = "nan" \/ y.k = "nan" THEN RNaN
    ELSE IF x.k # "fin" /\ y.k # "fin" THEN (IF x.k = y.k THEN x ELSE RNaN)
    ELSE IF x.k # "fin" THEN x
    ELSE y

RSub(x, y) == RAdd(x, RNeg(y))

RMul(x, y) ==
    IF x.k = "fin" /\ y.k = "fin" THEN Fin(FMul(x.v, y.v))
    ELSE IF x.k = "nan" \/ y.k = "nan" THEN RNaN
    ELSE Signed(RSign(x) * RSign(y))

RDiv(x, y) ==
    IF x.k = "nan" \/ y.k = "nan" THEN RNaN
    ELSE IF y.k # "fin" THEN (IF x.k # "fin" THEN RNaN ELSE RZero)
    ELSE IF y.v = FZero THEN Signed(RSign(x))
    ELSE IF x.k # "fin" THEN Signed(RSign(x) * FSign(y.v))
    ELSE Fin(FDiv(x.v, y.v))

RSqrt(x) ==
    IF x.k = "nan" \/ x.k = "ninf" THEN RNaN
    ELSE IF x.k = "inf" THEN RInf
    ELSE IF FSign(x.v) < 0 THEN RNaN
    ELSE IF x.v = FZero THEN RZero
    ELSE Fin(FSqrt(x.v))

(* the square root of x lies in the field (or x has none, or is not       *)
(* finite)                                                                 *)
SqrtInField(x) ==
    \/ x.k # "fin"
    \/ FSign(x.v) <= 0
    \/ x.v[2] = 0 /\ (IsSquare(x.v[1] * x.v[3]) \/ IsSquare(2 * x.v[1] * x.v[3]))

(* The granularity of a generator draw: a draw that is not a multiple of   *)
(* 2^-DrawBits is kept as [k |-> "open", v]: a value strictly between v    *)
(* and v + 2^-DrawBits.  Such a value is only ever compared.               *)
DrawBits == 16
DrawStep == FRat(1, Pow2(DrawBits))
Open(v) == [k |-> "open", v |-> v]

(* x < y on f64: false as soon as either side is NaN                       *)
RLess(x, y) ==
    IF x.k = "fin" /\ y.k = "fin" THEN FLess(x.v, y.v)
    ELSE IF x.k = "nan" \/ y.k = "nan" THEN FALSE
    ELSE IF x.k = "inf" \/ y.k = "ninf" THEN FALSE
    ELSE IF x.k = "ninf" \/ y.k = "inf" THEN TRUE
    ELSE IF x.k = "open" /\ y.k = "open" THEN
         IF x.v = y.v THEN Unrepresentable ELSE FLess(x.v, y.v)
    ELSE IF x.k = "open" THEN
         IF ~FLess(y.v, FAdd(x.v, DrawStep)) THEN TRUE
         ELSE IF ~FLess(x.v, y.v) THEN FALSE
         ELSE Unrepresentable
    ELSE IF ~FLess(y.v, x.v) THEN TRUE
    ELSE IF ~FLess(x.v, FAdd(y.v, DrawStep)) THEN FALSE
    ELSE Unrepresentable

(* x == y on f64                                                           *)
REq(x, y) ==
    IF x.k = "nan" \/ y.k = "nan" THEN FALSE
    ELSE IF x.k = "open" \/ y.k = "open" THEN Unrepresentable
    ELSE x = y

RAbs(x) == IF RSign(x) < 0 THEN RNeg(x) ELSE x

----------------------------------------------------------------------------
(* Complex (homaya-core/src/complex.rs)                                    *)

Complex(re, im) == [re |-> re, im |-> im]
ZERO == Complex(RZero, RZero)
ONE == Complex(ROne, RZero)
I == Complex(RZero, ROne)
from_real(re) == Complex(re, RZero)

CAdd(a, b) == Complex(RAdd(a.re, b.re), RAdd(a.im, b.im))
CMul(a, b) ==
    Complex(RSub(RMul(a.re, b.re), RMul(a.im, b.im)),
            RAdd(RMul(a.re, b.im), RMul(a.im, b.re)))
(* Complex * f64                                                           *)
CScale(a, x) == Complex(RMul(a.re, x), RMul(a.im, x))
CNeg(a) == Complex(RNeg(a.re), RNeg(a.im))
norm_sqr(a) == RAdd(RMul(a.re, a.re), RMul(a.im, a.im))

(* Angles are whole multiples of pi/4: the angle k stands for k*pi/4, and  *)
(* Cos and Sin are exact on them.  PI / 4.0 is the angle 1.                *)
Cos(k) ==
    IF k % 8 = 0 THEN ROne
    ELSE IF k % 8 = 4 THEN RInt(-1)
    ELSE IF k % 8 = 2 \/ k % 8 = 6 THEN RZero
    ELSE IF k % 8 = 1 \/ k % 8 = 7 THEN Fin(<<0, 1, 2>>)
    ELSE Fin(<<0, -1, 2>>)
Sin(k) == Cos(k - 2)
PI == 4
(* theta / 2.0, for an angle that is a multiple of pi/2                    *)
HalfAngle(k) == IF k % 2 = 0 THEN k \div 2 ELSE Unrepresentable

from_polar(r, theta) == Complex(RMul(r, Cos(theta)), RMul(r, Sin(theta)))

INV_SQRT_2 == Fin(<<0, 1, 2>>)

(* amplitudes compared as complex numbers                                  *)
CEq(a, b) == REq(a.re, b.re) /\ REq(a.im, b.im)

----------------------------------------------------------------------------
(* Gate catalog (homaya-core/src/gate.rs).  A gate is [gate_type, params]; *)
(* params is <<>> (GateParams::None), <<theta>> (Angle) or                  *)
(* <<theta, phi, lambda>> (Angles3).  A matrix [[a, b], [c, d]] is         *)
(* <<<<a, b>>, <<c, d>>>>: matrix[r][c] of the program is M[r+1][c+1].     *)

GateOf(t, params) == [gate_type |-> t, params |-> params]
NoMatrix == << >>

X_MATRIX == <<<<ZERO, ONE>>, <<ONE, ZERO>>>>
(* fault: H without the factor 1/sqrt 2                                     *)
H_MATRIX_UNSCALED == <<<<ONE, ONE>>, <<ONE, CNeg(ONE)>>>>
H_MATRIX == <<<<from_real(INV_SQRT_2), from_real(INV_SQRT_2)>>,
              <<from_real(INV_SQRT_2), CNeg(from_real(INV_SQRT_2))>>>>
T_MATRIX == <<<<ONE, ZERO>>, <<ZERO, from_polar(ROne, PI \div 4)>>>>
(* fault: Tdg with the angle of T (the sign of the angle lost)              *)
TDG_MATRIX_UNSIGNED == <<<<ONE, ZERO>>, <<ZERO, from_polar(ROne, PI \div 4)>>>>
TDG_MATRIX == <<<<ONE, ZERO>>, <<ZERO, from_polar(ROne, -(PI \div 4))>>>>

(* the Rx, Ry, Rz and U matrices from the half angle                       *)
RxMatrix(half) ==
    <<<<from_real(Cos(half)), Complex(RZero, RNeg(Sin(half)))>>,
      <<Complex(RZero, RNeg(Sin(half))), from_real(Cos(half))>>>>
RyMatrix(half) ==
    <<<<from_real(Cos(half)), CNeg(from_real(Sin(half)))>>,
      <<from_real(Sin(half)), from_real(Cos(half))>>>>
RzMatrix(half) ==
    <<<<from_polar(ROne, -half), ZERO>>, <<ZERO, from_polar(ROne, half)>>>>
UMatrix(half, phi, lambda) ==
    <<<<from_real(Cos(half)), CScale(CNeg(from_polar(ROne, lambda)), Sin(half))>>,
      <<CScale(from_polar(ROne, phi), Sin(half)),
        CScale(from_polar(ROne, phi + lambda), Cos(half))>>>>

matrix_2x2(gate) ==
    IF gate.gate_type = "I" THEN <<<<ONE, ZERO>>, <<ZERO, ONE>>>>
    ELSE IF gate.gate_type = "X" THEN <<<<ZERO, ONE>>, <<ONE, ZERO>>>>
    ELSE IF gate.gate_type = "Y" THEN <<<<ZERO, CNeg(I)>>, <<I, ZERO>>>>
    ELSE IF gate.gate_type = "Z" THEN <<<<ONE, ZERO>>, <<ZERO, CNeg(ONE)>>>>
    ELSE IF gate.gate_type = "H" THEN H_MATRIX
    ELSE IF gate.gate_type = "S" THEN <<<<ONE, ZERO>>, <<ZERO, I>>>>
    ELSE IF gate.gate_type = "Sdg" THEN <<<<ONE, ZERO>>, <<ZERO, CNeg(I)>>>>
    ELSE IF gate.gate_type = "T" THEN T_MATRIX
    ELSE IF gate.gate_type = "Tdg" THEN TDG_MATRIX
    ELSE IF gate.gate_type = "Rx" THEN
        IF Len(gate.params) = 1 THEN RxMatrix(HalfAngle(gate.params[1])) ELSE NoMatrix
    ELSE IF gate.gate_type = "Ry" THEN
        IF Len(gate.params) = 1 THEN RyMatrix(HalfAngle(gate.params[1])) ELSE NoMatrix
    ELSE IF gate.gate_type = "Rz" THEN
        IF Len(gate.params) = 1 THEN RzMatrix(HalfAngle(gate.params[1])) ELSE NoMatrix
    ELSE IF gate.gate_type = "P" THEN
        IF Len(gate.params) = 1 THEN
            <<<<ONE, ZERO>>, <<ZERO, from_polar(ROne, gate.params[1])>>>>
        ELSE NoMatrix
    ELSE IF gate.gate_type = "U" THEN
        IF Len(gate.params) = 3 THEN
            UMatrix(HalfAngle(gate.params[1]), gate.params[2], gate.params[3])
        ELSE NoMatrix
    ELSE NoMatrix

----------------------------------------------------------------------------
(* Amplitude store (homaya-sim/src/statevector.rs).  A StateVector is      *)
(* [num_qubits, amplitudes], amplitudes a function on 0 .. dim-1.  An      *)
(* indexing panic (amplitudes[i] with i >= len) ends the operation: the    *)
(* operators below then return Panicked, which every later operation       *)
(* passes on.                                                              *)

StateVector(n, amps) == [num_qubits |-> n, amplitudes |-> amps]
Panicked == [num_qubits |-> 0, amplitudes |-> << >>]
IsPanic(sv) == DOMAIN sv.amplitudes = {}
dimension(sv) == Cardinality(DOMAIN sv.amplitudes)

new(num_qubits) ==
    StateVector(num_qubits,
                [i \in 0 .. Pow2(num_qubits) - 1 |-> IF i = 0 THEN ONE ELSE ZERO])

(* vec![amp; dim]                                                          *)
Filled(num_qubits, amp) ==
    StateVector(num_qubits, [i \in 0 .. Pow2(num_qubits) - 1 |-> amp])

uniform(num_qubits) ==
    Filled(num_qubits, from_real(RDiv(ROne, RSqrt(RInt(Pow2(num_qubits))))))

probability(sv, index) == norm_sqr(sv.amplitudes[index])

(* acc plus the norm_sqr of the amplitudes at the indices i .. hi-1 that   *)
(* have bit q equal to 0 (all of them when q = -1), added in index order:  *)
(* first those of the lower half of the range, then those of the upper; a  *)
(* sum that is NaN stays NaN                                               *)
RECURSIVE SumNormSqr(_, _, _, _, _)
SumNormSqr(amps, i, hi, q, acc) ==
    IF i >= hi \/ acc.k = "nan" THEN acc
    ELSE IF hi - i = 1 THEN
        IF q >= 0 /\ Bit(i, q) # 0 THEN acc ELSE RAdd(acc, norm_sqr(amps[i]))
    ELSE SumNormSqr(amps, (i + hi) \div 2, hi, q,
                    SumNormSqr(amps, i, (i + hi) \div 2, q, acc))

(* amplitudes.iter().map(|c| c.norm_sqr()).sum()                           *)
NormSqrSum(amps) == SumNormSqr(amps, 0, Cardinality(DOMAIN amps), -1, RZero)

(* every amplitude times the f64 factor                                    *)
Scaled(sv, factor) ==
    [sv EXCEPT !.amplitudes = [i \in DOMAIN sv.amplitudes |-> CScale(sv.amplitudes[i], factor)]]

NormalizeBy(sv, total) ==
    IF RLess(RZero, total) THEN Scaled(sv, RDiv(ROne, RSqrt(total))) ELSE sv

normalize(sv) == NormalizeBy(sv, NormSqrSum(sv.amplitudes))

(* row[1] * a[1] + row[2] * a[2] + ..., added left to right                *)
Accumulate(acc, c, term) == IF c = 1 THEN term ELSE CAdd(acc, term)

RECURSIVE Dot(_, _, _, _)
Dot(row, a, c, acc) ==
    IF c > Len(row) THEN acc
    ELSE Dot(row, a, c + 1, Accumulate(acc, c, CMul(row[c], a[c])))

(* amplitudes[idx[r]] = row r of the matrix times a, for r = 1, 2, ... in  *)
(* this order; a holds the values read before the first write              *)
RECURSIVE WriteRows(_, _, _, _, _)
WriteRows(amps, idx, matrix, a, r) ==
    IF r > Len(idx) THEN amps
    ELSE WriteRows([amps EXCEPT ![idx[r]] = Dot(matrix[r], a, 1, ZERO)],
                   idx, matrix, a, r + 1)

(* fault: the second entry computed from the first entry as just written   *)
(* instead of the value a0 read before the write                           *)
PairUpdateInPlace(amps, i0, i1, matrix) ==
    [amps EXCEPT
        ![i0] = CAdd(CMul(matrix[1][1], amps[i0]), CMul(matrix[1][2], amps[i1])),
        ![i1] = CAdd(CMul(matrix[2][1],
                          CAdd(CMul(matrix[1][1], amps[i0]), CMul(matrix[1][2], amps[i1]))),
                     CMul(matrix[2][2], amps[i1]))]

(* one 2x2 update of the pair (i0, i1), as the loop bodies write it: both  *)
(* entries from the values a0 = amps[i0], a1 = amps[i1] read first         *)
PairUpdate(amps, i0, i1, matrix) ==
    [amps EXCEPT
        ![i0] = CAdd(CMul(matrix[1][1], amps[i0]), CMul(matrix[1][2], amps[i1])),
        ![i1] = CAdd(CMul(matrix[2][1], amps[i0]), CMul(matrix[2][2], amps[i1]))]

(* The kernel loops.  A loop over i .. hi-1 runs the iterations of the     *)
(* lower half of the range and then those of the upper half; an iteration  *)
(* that indexes past the end of the array leaves << >> (a panic), and no   *)
(* iteration follows it.                                                   *)

(* fault: the body of the loop of apply_single without the test of bit     *)
(* qubit, so that each pair is updated from both of its indices            *)
SingleStepEveryIndex(amps, i, qubit, matrix) ==
    IF OrBit(i, qubit) \notin DOMAIN amps THEN << >>
    ELSE PairUpdate(amps, i - Bit(i, qubit) * Pow2(qubit), OrBit(i, qubit), matrix)

(* the body of the loop of apply_single for index i                        *)
SingleStep(amps, i, qubit, matrix) ==
    IF Bit(i, qubit) = 0 THEN
        IF OrBit(i, qubit) \notin DOMAIN amps THEN << >>
        ELSE PairUpdate(amps, i, OrBit(i, qubit), matrix)
    ELSE amps

RECURSIVE ApplySingleLoop(_, _, _, _, _)
ApplySingleLoop(amps, i, hi, qubit, matrix) ==
    IF amps = << >> \/ i >= hi THEN amps
    ELSE IF hi - i = 1 THEN SingleStep(amps, i, qubit, matrix)
    ELSE ApplySingleLoop(ApplySingleLoop(amps, i, (i + hi) \div 2, qubit, matrix),
                         (i + hi) \div 2, hi, qubit, matrix)

(* the store after a kernel loop; a loop that indexed out of range         *)
(* returned << >>                                                          *)
Stored(sv, out) == IF out = << >> THEN Panicked ELSE [sv EXCEPT !.amplitudes = out]

apply_single(sv, qubit, matrix) ==
    IF IsPanic(sv) THEN sv
    ELSE Stored(sv, ApplySingleLoop(sv.amplitudes, 0, dimension(sv), qubit, matrix))

(* fault: the body of the loop of apply_controlled without the test of the *)
(* control bit                                                             *)
ControlledStepUnguarded(amps, i, control, target, matrix) ==
    SingleStep(amps, i, target, matrix)

(* the body of the loop of apply_controlled for index i                    *)
ControlledStep(amps, i, control, target, matrix) ==
    IF Bit(i, control) # 0 /\ Bit(i, target) = 0 THEN
        IF OrBit(i, target) \notin DOMAIN amps THEN << >>
        ELSE PairUpdate(amps, i, OrBit(i, target), matrix)
    ELSE amps

RECURSIVE ApplyControlledLoop(_, _, _, _, _, _)
ApplyControlledLoop(amps, i, hi, control, target, matrix) ==
    IF amps = << >> \/ i >= hi THEN amps
    ELSE IF hi - i = 1 THEN ControlledStep(amps, i, control, target, matrix)
    ELSE ApplyControlledLoop(
             ApplyControlledLoop(amps, i, (i + hi) \div 2, control, target, matrix),
             (i + hi) \div 2, hi, control, target, matrix)

apply_controlled(sv, control, target, matrix) ==
    IF IsPanic(sv) THEN sv
    ELSE Stored(sv, ApplyControlledLoop(sv.amplitudes, 0, dimension(sv),
                                        control, target, matrix))

(* fault: the 4x4 update with the rows written to (i00, i10, i01, i11)      *)
QuadUpdateTransposed(amps, i00, i01, i10, i11, matrix) ==
    WriteRows(amps, <<i00, i10, i01, i11>>, matrix,
              <<amps[i00], amps[i01], amps[i10], amps[i11]>>, 1)

(* the 4x4 update of (i00, i01, i10, i11)                                  *)
QuadUpdate(amps, i00, i01, i10, i11, matrix) ==
    WriteRows(amps, <<i00, i01, i10, i11>>, matrix,
              <<amps[i00], amps[i01], amps[i10], amps[i11]>>, 1)

(* the body of the loop of apply_two for index i                           *)
TwoStep(amps, i, q0, q1, matrix) ==
    IF Bit(i, q0) = 0 /\ Bit(i, q1) = 0 THEN
        IF OrBit(i, q0) \notin DOMAIN amps \/ OrBit(i, q1) \notin DOMAIN amps
           \/ OrBit(OrBit(i, q0), q1) \notin DOMAIN amps THEN << >>
        ELSE QuadUpdate(amps, i, OrBit(i, q0), OrBit(i, q1),
                        OrBit(OrBit(i, q0), q1), matrix)
    ELSE amps

RECURSIVE ApplyTwoLoop(_, _, _, _, _, _)
ApplyTwoLoop(amps, i, hi, q0, q1, matrix) ==
    IF amps = << >> \/ i >= hi THEN amps
    ELSE IF hi - i = 1 THEN TwoStep(amps, i, q0, q1, matrix)
    ELSE ApplyTwoLoop(ApplyTwoLoop(amps, i, (i + hi) \div 2, q0, q1, matrix),
                      (i + hi) \div 2, hi, q0, q1, matrix)

apply_two(sv, q0, q1, matrix) ==
    IF IsPanic(sv) THEN sv
    ELSE Stored(sv, ApplyTwoLoop(sv.amplitudes, 0, dimension(sv), q0, q1, matrix))

(* prob_0 of measure: the sum of norm_sqr over the indices with bit q = 0  *)
Prob0(amps, qubit) == SumNormSqr(amps, 0, Cardinality(DOMAIN amps), qubit, RZero)

(* the collapse loop of measure; measure returns [state, result]           *)
Collapsed(sv, qubit, result, inv_sqrt_norm) ==
    [state |->
        [sv EXCEPT !.amplitudes =
            [i \in DOMAIN sv.amplitudes |->
                IF (result = 0 /\ Bit(i, qubit) # 0) \/ (result = 1 /\ Bit(i, qubit) = 0)
                THEN ZERO
                ELSE CScale(sv.amplitudes[i], inv_sqrt_norm)]],
     result |-> result]

(* norm and inv_sqrt_norm of measure                                       *)
CollapseTo(sv, qubit, result, prob_0) ==
    Collapsed(sv, qubit, result,
              RDiv(ROne, RSqrt(IF result = 0 THEN prob_0 ELSE RSub(ROne, prob_0))))

(* fault: the outcome 0 chosen for random <= prob_0                        *)
MeasureGivenInclusive(sv, qubit, random, prob_0) ==
    CollapseTo(sv, qubit, IF ~RLess(prob_0, random) THEN 0 ELSE 1, prob_0)

(* fault: the two outcomes exchanged                                       *)
MeasureGivenExchanged(sv, qubit, random, prob_0) ==
    CollapseTo(sv, qubit, IF RLess(random, prob_0) THEN 1 ELSE 0, prob_0)

MeasureGiven(sv, qubit, random, prob_0) ==
    CollapseTo(sv, qubit, IF RLess(random, prob_0) THEN 0 ELSE 1, prob_0)

measure(sv, qubit, random) ==
    IF IsPanic(sv) THEN [state |-> sv, result |-> 0]
    ELSE MeasureGiven(sv, qubit, random, Prob0(sv.amplitudes, qubit))

(* fault: reset without its second statement                               *)
FlipBackSkipped(m, qubit) == m.state

(* the second statement of reset, m what measure returned                  *)
FlipBack(m, qubit) ==
    IF m.result = 1 THEN apply_single(m.state, qubit, X_MATRIX) ELSE m.state

reset(sv, qubit, random) == FlipBack(measure(sv, qubit, random), qubit)

set(sv, index, value) ==
    IF IsPanic(sv) THEN sv
    ELSE IF index \notin DOMAIN sv.amplitudes THEN Panicked
    ELSE [sv EXCEPT !.amplitudes[index] = value]

(* StateVector::from_amplitudes.  The list is a sequence (amplitudes[0] of *)
(* the program is amplitudes[1]); the result is [err, sv].  The tolerance  *)
(* 1e-10 is 1 / TOL_SCALE^2.                                               *)
TOL_SCALE == 100000

(* x > 1e-10, for x >= 0                                                   *)
ExceedsTolerance(x) ==
    IF x.k = "nan" THEN FALSE
    ELSE IF x.k = "inf" THEN TRUE
    ELSE IF ~RLess(RMul(x, RInt(TOL_SCALE)), ROne) THEN TRUE
    ELSE RLess(ROne, RMul(RMul(x, RInt(TOL_SCALE)), RInt(TOL_SCALE)))

IsPowerOfTwo(dim) == dim > 0 /\ \E k \in 0 .. dim : Pow2(k) = dim
trailing_zeros(dim) == CHOOSE k \in 0 .. dim : Pow2(k) = dim

(* the list as the array of a store                                        *)
Indexed(amplitudes) == [i \in 0 .. Len(amplitudes) - 1 |-> amplitudes[i + 1]]

from_amplitudes(amplitudes) ==
    IF ~IsPowerOfTwo(Len(amplitudes)) THEN
        [err |-> "StateDimensionMismatch", sv |-> Panicked]
    ELSE IF ExceedsTolerance(RAbs(RSub(NormSqrSum(Indexed(amplitudes)), ROne))) THEN
        [err |-> "StateNotNormalized", sv |-> Panicked]
    ELSE [err |-> "Ok",
          sv |-> StateVector(trailing_zeros(Len(amplitudes)), Indexed(amplitudes))]

----------------------------------------------------------------------------
(* The generator (homaya-sim/src/simulator.rs, next_random).  A u64 is the *)
(* set of the positions of its 1 bits, so the shifts and xors are exact on *)
(* all 64 bits.                                                            *)

U64Bits == 0 .. 63
(* the u64 with the four 16-bit limbs h3 h2 h1 h0, most significant first  *)
U64(h3, h2, h1, h0) ==
    {i \in U64Bits : Bit(<<h0, h1, h2, h3>>[(i \div 16) + 1], i % 16) = 1}
Shl(x, k) == {i + k : i \in x} \cap U64Bits
Shr(x, k) == {i - k : i \in x} \cap U64Bits
Xor(a, b) == (a \cup b) \ (a \cap b)

(* x ^= x << 13; x ^= x >> 7; x ^= x << 17                                 *)
XorShl(x, k) == Xor(x, Shl(x, k))
XorShr(x, k) == Xor(x, Shr(x, k))
XorShift(x) == XorShl(XorShr(XorShl(x, 13), 7), 17)

MaxOf(S) == CHOOSE m \in S : \A i \in S : i <= m
MinOf(S) == CHOOSE m \in S : \A i \in S : m <= i

(* x rounded to the 53 bits from position d up: to nearest, ties to even;  *)
(* a carry goes to the lowest position z >= d that is clear                *)
RoundUp(x, d) == (d - 1) \in x /\ ({i \in x : i < d - 1} # {} \/ d \in x)
Carry(x, z) == {i \in x : i > z} \cup {z}
RoundAt(x, d) ==
    IF RoundUp(x, d) THEN Carry(x, MinOf({i \in d .. 64 : i \notin x}))
    ELSE {i \in x : i >= d}

(* x as f64: a set of bit positions within 0 .. 64                         *)
U64AsF64(x) ==
    IF x = {} \/ MaxOf(x) <= 52 THEN x ELSE RoundAt(x, MaxOf(x) - 52)

(* the value of the bits at positions >= cut, in units of 2^cut            *)
RECURSIVE BitsValue(_, _)
BitsValue(S, cut) ==
    IF S = {} THEN 0
    ELSE Pow2(MaxOf(S) - cut) + BitsValue(S \ {MaxOf(S)}, cut)

(* big / 2^64 for the f64 big: exact when big is a multiple of             *)
(* 2^(64 - DrawBits), else an open value                                   *)
Quotient(big, cut) ==
    IF {i \in big : i < cut} = {} THEN
        Fin(FRat(BitsValue({i \in big : i >= cut}, cut), Pow2(DrawBits)))
    ELSE Open(FRat(BitsValue({i \in big : i >= cut}, cut), Pow2(DrawBits)))

(* (x as f64) / (u64::MAX as f64): u64::MAX as f64 is 2^64, so the         *)
(* quotient is exact                                                       *)
DrawOf(x) == Quotient(U64AsF64(x), 64 - DrawBits)

(* Simulator: [seed, rng_state]; seed is <<>> (None) or <<s>> (Some(s))    *)
DEFAULT_SEED == U64(\H853c, \H49e6, \H748f, \Hea9b)
Simulator_new == [seed |-> << >>, rng_state |-> DEFAULT_SEED]
(* fault: a zero seed replaced by the default one                          *)
with_seed_nonzero(seed) ==
    [seed |-> <<seed>>, rng_state |-> IF seed = {} THEN DEFAULT_SEED ELSE seed]
with_seed(seed) == [seed |-> <<seed>>, rng_state |-> seed]

(* next_random returns [rng_state, value]                                  *)
Drawn(x) == [rng_state |-> x, value |-> DrawOf(x)]
(* fault: the generator stepped twice for one draw                         *)
next_random_twice(rng_state) == Drawn(XorShift(XorShift(rng_state)))
next_random(rng_state) == Drawn(XorShift(rng_state))

----------------------------------------------------------------------------
(* Circuit executor (homaya-sim/src/simulator.rs).  An instruction is      *)
(* [gate, qubits, clbits]; qubits[0] of the program is qubits[1] here.  A  *)
(* circuit is [num_qubits, num_clbits, instructions].                      *)

Instruction(gate, qubits, clbits) == [gate |-> gate, qubits |-> qubits, clbits |-> clbits]
Circuit(n, c, insts) == [num_qubits |-> n, num_clbits |-> c, instructions |-> insts]

(* MeasurementResult::new: bits[c] of the program is bits[c + 1]           *)
MeasurementResult_new(num_clbits) == [c \in 1 .. num_clbits |-> 0]
bitstring(bits) == [c \in 1 .. Len(bits) |-> IF bits[c] = 0 THEN "0" ELSE "1"]

SingleQubitTypes ==
    {"I", "X", "Y", "Z", "H", "S", "Sdg", "T", "Tdg", "Rx", "Ry", "Rz", "P", "U"}

(* A kernel call: [kind, qubits, matrix], kind "single" (apply_single),   *)
(* "controlled" (apply_controlled) or "two" (apply_two).                   *)
Single(qubit, matrix) == [kind |-> "single", qubits |-> <<qubit>>, matrix |-> matrix]
Controlled(control, target, matrix) ==
    [kind |-> "controlled", qubits |-> <<control, target>>, matrix |-> matrix]
Two(q0, q1, matrix) == [kind |-> "two", qubits |-> <<q0, q1>>, matrix |-> matrix]

ApplyKernel(state, k) ==
    IF k.kind = "single" THEN apply_single(state, k.qubits[1], k.matrix)
    ELSE IF k.kind = "controlled" THEN
        apply_controlled(state, k.qubits[1], k.qubits[2], k.matrix)
    ELSE apply_two(state, k.qubits[1], k.qubits[2], k.matrix)

(* the kernel calls ks of a handler, made one after the other: those of    *)
(* the first half of the list, then those of the second; after a panic no  *)
(* further call is made                                                    *)
RECURSIVE ApplyKernels(_, _)
ApplyKernels(state, ks) ==
    IF ks = << >> \/ IsPanic(state) THEN state
    ELSE IF Len(ks) = 1 THEN ApplyKernel(state, ks[1])
    ELSE ApplyKernels(ApplyKernels(state, SubSeq(ks, 1, Len(ks) \div 2)),
                      SubSeq(ks, Len(ks) \div 2 + 1, Len(ks)))

(* the kernel calls of apply_ccx, in the order of its statements           *)
ccx_kernels(c1, c2, target) ==
    <<Single(target, H_MATRIX),
      Controlled(c2, target, X_MATRIX),
      Single(target, TDG_MATRIX),
      Controlled(c1, target, X_MATRIX),
      Single(target, T_MATRIX),
      Controlled(c2, target, X_MATRIX),
      Single(target, TDG_MATRIX),
      Controlled(c1, target, X_MATRIX),
      Single(c2, T_MATRIX),
      Single(target, T_MATRIX),
      Single(target, H_MATRIX),
      Controlled(c1, c2, X_MATRIX),
      Single(c2, TDG_MATRIX),
      Controlled(c1, c2, X_MATRIX),
      Single(c1, T_MATRIX),
      Single(c2, <<<<ONE, ZERO>>, <<ZERO, I>>>>)>>

apply_ccx(state, c1, c2, target) == ApplyKernels(state, ccx_kernels(c1, c2, target))

(* fault: the two CNOTs of apply_cswap with control and target exchanged    *)
cswap_kernels_reversed(control, t1, t2) ==
    <<Controlled(t1, t2, X_MATRIX)>> \o ccx_kernels(control, t1, t2)
        \o <<Controlled(t1, t2, X_MATRIX)>>

(* apply_cswap: CNOT(t2, t1), apply_ccx(control, t1, t2), CNOT(t2, t1)     *)
cswap_kernels(control, t1, t2) ==
    <<Controlled(t2, t1, X_MATRIX)>> \o ccx_kernels(control, t1, t2)
        \o <<Controlled(t2, t1, X_MATRIX)>>

apply_cswap(state, control, t1, t2) == ApplyKernels(state, cswap_kernels(control, t1, t2))

SWAP_MATRIX ==
    <<<<ONE, ZERO, ZERO, ZERO>>,
      <<ZERO, ZERO, ONE, ZERO>>,
      <<ZERO, ONE, ZERO, ZERO>>,
      <<ZERO, ZERO, ZERO, ONE>>>>

(* The outcome of one instruction: [err, rng_state, state, bits], err one  *)
(* of "Ok", "NotSupported", "panic" (an index out of range).               *)
Outcome(err, rng_state, state, bits) ==
    [err |-> err, rng_state |-> rng_state, state |-> state, bits |-> bits]

Stepped(rng_state, state, bits) ==
    Outcome(IF IsPanic(state) THEN "panic" ELSE "Ok", rng_state, state, bits)

(* the number of entries of qubits an arm of apply_instruction reads       *)
OperandsRead(gate) ==
    IF gate.gate_type \in SingleQubitTypes \cup {"Measure", "Reset"} THEN 1
    ELSE IF gate.gate_type \in {"CX", "CY", "CZ", "CH", "Swap"} THEN 2
    ELSE IF gate.gate_type \in {"CCX", "CSwap"} THEN 3
    ELSE IF gate.gate_type = "CP" /\ Len(gate.params) = 1 THEN 2
    ELSE 0

(* the kernel calls the arm of a gate instruction makes                    *)
gate_kernels(gate, qubits) ==
    IF gate.gate_type \in SingleQubitTypes THEN <<Single(qubits[1], matrix_2x2(gate))>>
    ELSE IF gate.gate_type = "CX" THEN <<Controlled(qubits[1], qubits[2], X_MATRIX)>>
    ELSE IF gate.gate_type = "CY" THEN
        <<Controlled(qubits[1], qubits[2], <<<<ZERO, CNeg(I)>>, <<I, ZERO>>>>)>>
    ELSE IF gate.gate_type = "CZ" THEN
        <<Controlled(qubits[1], qubits[2], <<<<ONE, ZERO>>, <<ZERO, CNeg(ONE)>>>>)>>
    ELSE IF gate.gate_type = "CH" THEN <<Controlled(qubits[1], qubits[2], H_MATRIX)>>
    ELSE IF gate.gate_type = "CP" THEN
        IF Len(gate.params) = 1 THEN
            <<Controlled(qubits[1], qubits[2],
                         <<<<ONE, ZERO>>, <<ZERO, from_polar(ROne, gate.params[1])>>>>)>>
        ELSE << >>
    ELSE IF gate.gate_type = "Swap" THEN <<Two(qubits[1], qubits[2], SWAP_MATRIX)>>
    ELSE IF gate.gate_type = "CCX" THEN ccx_kernels(qubits[1], qubits[2], qubits[3])
    ELSE IF gate.gate_type = "CSwap" THEN cswap_kernels(qubits[1], qubits[2], qubits[3])
    ELSE << >>

(* fault: the types without an arm treated like Barrier                    *)
GateTypesLenient ==
    SingleQubitTypes \cup {"CX", "CY", "CZ", "CH", "CP", "Swap", "CCX", "CSwap", "Barrier",
                           "CU", "ISwap", "SqrtSwap"}
(* the gate types whose arm only calls kernels (Barrier calls none)        *)
GateTypes ==
    SingleQubitTypes \cup {"CX", "CY", "CZ", "CH", "CP", "Swap", "CCX", "CSwap", "Barrier"}

(* the Measure arm after the draw and the collapse: m is what measure      *)
(* returned                                                                *)
(* fault: a slot that once held 1 keeps it                                 *)
RecordedSticky(rng_state, m, clbits, bits) ==
    IF clbits = << >> THEN Stepped(rng_state, m.state, bits)
    ELSE IF clbits[1] + 1 \in DOMAIN bits THEN
        Stepped(rng_state, m.state,
                [bits EXCEPT ![clbits[1] + 1] = IF @ = 1 THEN 1 ELSE m.result])
    ELSE Outcome("panic", rng_state, Panicked, bits)
Recorded(rng_state, m, clbits, bits) ==
    IF clbits = << >> THEN Stepped(rng_state, m.state, bits)
    ELSE IF clbits[1] + 1 \in DOMAIN bits THEN
        Stepped(rng_state, m.state, [bits EXCEPT ![clbits[1] + 1] = m.result])
    ELSE Outcome("panic", rng_state, Panicked, bits)

MeasureArm(draw, state, qubit, clbits, bits) ==
    Recorded(draw.rng_state, measure(state, qubit, draw.value), clbits, bits)

(* the Reset arm, given the draw                                           *)
ResetArm(draw, state, qubit, bits) ==
    Stepped(draw.rng_state, reset(state, qubit, draw.value), bits)

apply_instruction(rng_state, state, gate, qubits, clbits, bits) ==
    IF gate.gate_type \in SingleQubitTypes /\ matrix_2x2(gate) = NoMatrix THEN
        Outcome("NotSupported", rng_state, state, bits)
    ELSE IF Len(qubits) < OperandsRead(gate) THEN
        Outcome("panic", rng_state, Panicked, bits)
    ELSE IF gate.gate_type \in GateTypes THEN
        Stepped(rng_state, ApplyKernels(state, gate_kernels(gate, qubits)), bits)
    ELSE IF gate.gate_type = "Measure" THEN
        MeasureArm(next_random(rng_state), state, qubits[1], clbits, bits)
    ELSE IF gate.gate_type = "Reset" THEN
        ResetArm(next_random(rng_state), state, qubits[1], bits)
    ELSE Outcome("NotSupported", rng_state, state, bits)

(* the loop of run_from_state and run_with_measurements, from position i;  *)
(* Continue is the ? after apply_instruction                               *)
RECURSIVE RunLoop(_, _, _, _, _)
RECURSIVE Continue(_, _, _)
RunLoop(insts, i, rng_state, state, bits) ==
    IF i > Len(insts) THEN Outcome("Ok", rng_state, state, bits)
    ELSE Continue(insts, i,
                  apply_instruction(rng_state, state, insts[i].gate,
                                    insts[i].qubits, insts[i].clbits, bits))
Continue(insts, i, o) ==
    IF o.err # "Ok" THEN o ELSE RunLoop(insts, i + 1, o.rng_state, o.state, o.bits)

(* Err(QubitMismatch { expected, got })                                    *)
QubitMismatch(rng_state, state, expected, got) ==
    [err |-> "QubitMismatch", rng_state |-> rng_state, state |-> state, bits |-> << >>,
     expected |-> expected, got |-> got]

(* fault: run_from_state without the comparison of the qubit counts        *)
run_from_state_unchecked(rng_state, circuit, state) ==
    RunLoop(circuit.instructions, 1, rng_state, state,
            MeasurementResult_new(circuit.num_clbits))

run_from_state(rng_state, circuit, state) ==
    IF state.num_qubits # circuit.num_qubits THEN
        QubitMismatch(rng_state, state, circuit.num_qubits, state.num_qubits)
    ELSE RunLoop(circuit.instructions, 1, rng_state, state,
                 MeasurementResult_new(circuit.num_clbits))

run(rng_state, circuit) == run_from_state(rng_state, circuit, new(circuit.num_qubits))

run_with_measurements(rng_state, circuit) ==
    RunLoop(circuit.instructions, 1, rng_state, new(circuit.num_qubits),
            MeasurementResult_new(circuit.num_clbits))

(* counts.entry(key).or_insert(0) += 1                                     *)
(* fault: the entry of the key stored as 1 instead of incremented          *)
CountUpOnce(counts, key) == [k \in DOMAIN counts \cup {key} |-> IF k = key THEN 1 ELSE counts[k]]
CountUp(counts, key) ==
    IF key \in DOMAIN counts THEN [counts EXCEPT ![key] = @ + 1]
    ELSE [k \in DOMAIN counts \cup {key} |-> IF k = key THEN 1 ELSE counts[k]]

NoCounts == [k \in {} |-> 0]

Sampled(err, rng_state, counts) == [err |-> err, rng_state |-> rng_state, counts |-> counts]

(* the shot loop of sample: [err, rng_state, counts]; Counted is the       *)
(* body after run_with_measurements returned o                             *)
RECURSIVE ShotLoop(_, _, _, _)
RECURSIVE Counted(_, _, _, _)
ShotLoop(circuit, left, rng_state, counts) ==
    IF left = 0 THEN Sampled("Ok", rng_state, counts)
    ELSE Counted(circuit, left, counts, run_with_measurements(rng_state, circuit))
Counted(circuit, left, counts, o) ==
    IF o.err # "Ok" THEN Sampled(o.err, o.rng_state, NoCounts)
    ELSE ShotLoop(circuit, left - 1, o.rng_state, CountUp(counts, bitstring(o.bits)))

(* fault: sample continuing the generator's stream instead of restarting   *)
(* it from the seed                                                        *)
sample_unseeded(sim, circuit, shots) == ShotLoop(circuit, shots, sim.rng_state, NoCounts)
sample(sim, circuit, shots) ==
    ShotLoop(circuit, shots,
             IF sim.seed # << >> THEN sim.seed[1] ELSE sim.rng_state, NoCounts)

----------------------------------------------------------------------------
(* Circuit builder (homaya-core/src/circuit.rs)                            *)

Circuit_new(num_qubits) == Circuit(num_qubits, 0, << >>)
with_clbits(num_qubits, num_clbits) == Circuit(num_qubits, num_clbits, << >>)
Instruction_new(gate, qubits) == Instruction(gate, qubits, << >>)
push(circuit, inst) == [circuit EXCEPT !.instructions = Append(@, inst)]

(* the gate methods: i, x, ..., u, cx, ..., cswap push one instruction     *)
AddGate(circuit, gate, qubits) == push(circuit, Instruction_new(gate, qubits))
Circuit_x(circuit, q) == AddGate(circuit, GateOf("X", << >>), <<q>>)
Circuit_h(circuit, q) == AddGate(circuit, GateOf("H", << >>), <<q>>)
(* fault: cx pushing its operands in the order (target, control)           *)
Circuit_cx_reversed(circuit, control, target) ==
    AddGate(circuit, GateOf("CX", << >>), <<target, control>>)
Circuit_cx(circuit, control, target) ==
    AddGate(circuit, GateOf("CX", << >>), <<control, target>>)
Circuit_measure(circuit, q, c) ==
    push(circuit, Instruction(GateOf("Measure", << >>), <<q>>, <<c>>))
Circuit_reset(circuit, q) == AddGate(circuit, GateOf("Reset", << >>), <<q>>)
Circuit_barrier(circuit, qubits) == AddGate(circuit, GateOf("Barrier", << >>), qubits)

RECURSIVE MeasureFrom(_, _)
MeasureFrom(circuit, q) ==
    IF q >= circuit.num_qubits THEN circuit
    ELSE MeasureFrom(Circuit_measure(circuit, q, q), q + 1)

measure_all(circuit) ==
    MeasureFrom([circuit EXCEPT !.num_clbits =
                    IF @ < circuit.num_qubits THEN circuit.num_qubits ELSE @], 0)

(* barrier_all: a barrier naming the qubits 0 .. num_qubits - 1            *)
barrier_all(circuit) ==
    Circuit_barrier(circuit, [q \in 1 .. circuit.num_qubits |-> q - 1])

(* compose: [err, circuit]                                                 *)
compose(circuit, other) ==
    IF other.num_qubits > circuit.num_qubits THEN
        [err |-> "QubitMismatch", circuit |-> circuit]
    ELSE [err |-> "Ok",
          circuit |-> [circuit EXCEPT !.instructions = @ \o other.instructions]]

(* repeat: the loop for _ in 1..n pushes the original instructions         *)
RECURSIVE Repeated(_, _, _)
Repeated(result, original, left) ==
    IF left <= 0 THEN result
    ELSE Repeated([result EXCEPT !.instructions = @ \o original], original, left - 1)
repeat(circuit, n) == Repeated(circuit, circuit.instructions, n - 1)

(* inverse: the instructions pushed in reverse order, each as it is        *)
Reversed(insts) == [i \in 1 .. Len(insts) |-> insts[Len(insts) + 1 - i]]
inverse(circuit) ==
    Circuit(circuit.num_qubits, circuit.num_clbits, Reversed(circuit.instructions))

----------------------------------------------------------------------------
(* State.  sim is the executor, circuit the circuit being built and then   *)
(* run, input the state a run starts from, state the amplitude store (the  *)
(* state a run returned), prev the store before the last store operation,  *)
(* measurements and counts the record and histogram of the last call,      *)
(* call the last call made ([op, args]), ret the error it returned ("Ok"   *)
(* for none), outcome the bit the last measure returned and calls the      *)
(* number of calls made so far.  before is the executor as it was when the *)
(* last call was made, and twin a second executor with what its last call  *)
(* returned.                                                               *)

VARIABLES sim, circuit, input, state, prev, measurements, counts, call, ret,
          outcome, calls, before, twin

vars == <<sim, circuit, input, state, prev, measurements, counts, call, ret,
          outcome, calls, before, twin>>

(* a second executor e that has not been called yet                        *)
Second(e) ==
    [sim |-> e, ret |-> "Ok", state |-> Panicked, measurements |-> << >>,
     counts |-> [k \in {} |-> 0]]

NoCall == [op |-> "none", args |-> << >>]
Call(op, args) == [op |-> op, args |-> args]

(* bounds of the executor model                                            *)
MaxQubits == 3
MaxDepth == 2

(* angles (in units of pi/4) given to the parameterized gates              *)
RotationAngles == {2}
PhaseAngles == {1}
UAngles == {<<2, 1, 3>>}

SingleGates ==
    {GateOf(t, << >>) : t \in {"I", "X", "Y", "Z", "H", "S", "Sdg", "T", "Tdg"}}
    \cup {GateOf(t, <<a>>) : t \in {"Rx", "Ry", "Rz"}, a \in RotationAngles}
    \cup {GateOf("P", <<a>>) : a \in PhaseAngles}
    \cup {GateOf("U", a) : a \in UAngles}

Qubits(c) == 0 .. c.num_qubits - 1

(* the basis state |b> of n qubits, as the list handed to from_amplitudes  *)
BasisAmplitudes(n, b) == [k \in 1 .. Pow2(n) |-> IF k - 1 = b THEN ONE ELSE ZERO]

(* A product state with pairwise different amplitudes: qubit q is          *)
(* (a|0> + i*b|1>) / c for the Pythagorean triple (a, b, c) of q.          *)
Triples == <<<<3, 4, 5>>, <<5, 12, 13>>, <<8, 15, 17>>, <<7, 24, 25>>>>
QubitAmplitude(q, bit) ==
    IF bit = 0 THEN from_real(RRat(Triples[(q % 4) + 1][1], Triples[(q % 4) + 1][3]))
    ELSE Complex(RZero, RRat(Triples[(q % 4) + 1][2], Triples[(q % 4) + 1][3]))

RECURSIVE ProductAmplitude(_, _, _)
ProductAmplitude(n, k, q) ==
    IF q >= n THEN ONE
    ELSE CMul(QubitAmplitude(q, Bit(k, q)), ProductAmplitude(n, k, q + 1))

ProductAmplitudes(n) == [k \in 1 .. Pow2(n) |-> ProductAmplitude(n, k - 1, 0)]

RawInputs(n) == {BasisAmplitudes(n, b) : b \in 0 .. Pow2(n) - 1} \cup {ProductAmplitudes(n)}

(* the stores the constructors return for these inputs                     *)
Constructed(n) ==
    {new(n), uniform(n)}
    \cup {r.sv : r \in {x \in {from_amplitudes(a) : a \in RawInputs(n)} : x.err = "Ok"}}

InitExec ==
    /\ sim = Simulator_new
    /\ \E n \in 1 .. MaxQubits :
          /\ circuit = Circuit_new(n)
          /\ input \in Constructed(n)
    /\ state = input
    /\ prev = input
    /\ measurements = << >>
    /\ counts = NoCounts
    /\ call = NoCall
    /\ ret = "Ok"
    /\ outcome = 0
    /\ calls = 0
    /\ before = sim
    /\ twin = Second(sim)

(* a circuit is still being built: longer circuits start from |0...0>      *)
Building ==
    /\ call = NoCall
    /\ Len(circuit.instructions) <
          (IF input = new(circuit.num_qubits) THEN MaxDepth ELSE MaxDepth - 1)

Built(c) ==
    /\ circuit' = c
    /\ UNCHANGED <<sim, input, state, prev, measurements, counts, call, ret, outcome, calls,
                    before, twin>>

AddSingle ==
    /\ Building
    /\ \E g \in SingleGates, q \in Qubits(circuit) : Built(AddGate(circuit, g, <<q>>))

AddCX ==
    /\ Building
    /\ \E c, t \in Qubits(circuit) : c # t /\ Built(Circuit_cx(circuit, c, t))

AddCY ==
    /\ Building
    /\ \E c, t \in Qubits(circuit) :
          c # t /\ Built(AddGate(circuit, GateOf("CY", << >>), <<c, t>>))

AddCZ ==
    /\ Building
    /\ \E c, t \in Qubits(circuit) :
          c # t /\ Built(AddGate(circuit, GateOf("CZ", << >>), <<c, t>>))

AddCH ==
    /\ Building
    /\ \E c, t \in Qubits(circuit) :
          c # t /\ Built(AddGate(circuit, GateOf("CH", << >>), <<c, t>>))

AddCP ==
    /\ Building
    /\ \E a \in PhaseAngles, c, t \in Qubits(circuit) :
          c # t /\ Built(AddGate(circuit, GateOf("CP", <<a>>), <<c, t>>))

AddSwap ==
    /\ Building
    /\ \E q1, q2 \in Qubits(circuit) :
          q1 # q2 /\ Built(AddGate(circuit, GateOf("Swap", << >>), <<q1, q2>>))

AddCCX ==
    /\ Building
    /\ \E c1, c2, t \in Qubits(circuit) :
          /\ c1 # c2 /\ c1 # t /\ c2 # t
          /\ Built(AddGate(circuit, GateOf("CCX", << >>), <<c1, c2, t>>))

AddCSwap ==
    /\ Building
    /\ \E c, t1, t2 \in Qubits(circuit) :
          /\ c # t1 /\ c # t2 /\ t1 # t2
          /\ Built(AddGate(circuit, GateOf("CSwap", << >>), <<c, t1, t2>>))

AddBarrier ==
    /\ Building
    /\ Built(Circuit_barrier(circuit, << >>))

(* a call of the executor returned o: a failed call returns no state       *)
Returned(op, args, o) ==
    /\ sim' = [sim EXCEPT !.rng_state = o.rng_state]
    /\ state' = IF o.err = "Ok" THEN o.state ELSE Panicked
    /\ measurements' = IF o.err = "Ok" /\ op = "run_with_measurements" THEN o.bits ELSE << >>
    /\ ret' = o.err
    /\ call' = Call(op, args)
    /\ counts' = NoCounts
    /\ calls' = calls + 1
    /\ before' = sim
    /\ UNCHANGED outcome

Ran(op, args, o) == Returned(op, args, o) /\ UNCHANGED twin

Run ==
    /\ call = NoCall
    /\ input = new(circuit.num_qubits)
    /\ Ran("run", << >>, run(sim.rng_state, circuit))
    /\ UNCHANGED <<circuit, input, prev>>

RunFromState ==
    /\ call = NoCall
    /\ input # new(circuit.num_qubits)
    /\ Ran("run_from_state", << >>, run_from_state(sim.rng_state, circuit, input))
    /\ UNCHANGED <<circuit, input, prev>>

NextExec ==
    \/ AddSingle \/ AddCX \/ AddCY \/ AddCZ \/ AddCH \/ AddCP \/ AddSwap
    \/ AddCCX \/ AddCSwap \/ AddBarrier
    \/ Run \/ RunFromState

SpecExec == InitExec /\ [][NextExec]_vars


----------------------------------------------------------------------------
(* The executor's public calls on whole circuits.                          *)

MaxGHZ == 3
MaxShots == 2
MaxCalls == 2

(* h(0) followed by cx(0,1), cx(1,2), ..., cx(n-2,n-1)                      *)
RECURSIVE Chain(_, _)
Chain(c, q) ==
    IF q + 1 >= c.num_qubits THEN c
    ELSE Chain(Circuit_cx(c, q, q + 1), q + 1)
GHZ(n) == Chain(Circuit_h(Circuit_new(n), 0), 0)

(* h(0).cx(0,1).measure_all() on two qubits                                *)
BellMeasured == measure_all(GHZ(2))

Circuits == {GHZ(n) : n \in 2 .. MaxGHZ} \cup {BellMeasured, measure_all(GHZ(3))}

Seeds ==
    {U64(0, 0, 0, 42), U64(0, 0, 0, 0), U64(0, 0, 0, 12345),
     U64(\Hc41e, \H6f55, \Hb819, \H2b12)}

Executors == {Simulator_new} \cup {with_seed(s) : s \in Seeds}

Init ==
    /\ sim \in Executors
    /\ circuit = Circuit_new(1)
    /\ input = new(1)
    /\ state = input
    /\ prev = input
    /\ measurements = << >>
    /\ counts = NoCounts
    /\ call = NoCall
    /\ ret = "Ok"
    /\ outcome = 0
    /\ calls = 0
    /\ before = sim
    /\ twin = Second(sim)

(* the circuit handed to the call                                          *)
Given(c) ==
    /\ calls < MaxCalls
    /\ circuit' = c
    /\ input' = new(c.num_qubits)
    /\ prev' = new(c.num_qubits)

RunCircuit ==
    \E c \in Circuits : Given(c) /\ Ran("run", << >>, run(sim.rng_state, c))

RunWithMeasurements ==
    \E c \in Circuits :
        Given(c) /\ Ran("run_with_measurements", << >>, run_with_measurements(sim.rng_state, c))

(* sample returned o = [err, rng_state, counts]                            *)
Histogram(shots, o) ==
    /\ sim' = [sim EXCEPT !.rng_state = o.rng_state]
    /\ counts' = o.counts
    /\ ret' = o.err
    /\ call' = Call("sample", <<shots>>)
    /\ state' = Panicked
    /\ measurements' = << >>
    /\ calls' = calls + 1
    /\ before' = sim
    /\ UNCHANGED outcome

SampleReturned(shots, o) == Histogram(shots, o) /\ UNCHANGED twin

Sample ==
    \E c \in Circuits, shots \in 0 .. MaxShots :
        Given(c) /\ SampleReturned(shots, sample(sim, c, shots))

Next == RunCircuit \/ RunWithMeasurements \/ Sample

Spec == Init /\ [][Next]_vars

----------------------------------------------------------------------------
(* The public operations of the amplitude store, called one after the      *)
(* other on a store a constructor returned.                                *)

MaxStoreQubits == 2
MaxOps == 2

StoreMatrices == {X_MATRIX, H_MATRIX, T_MATRIX, <<<<ONE, ZERO>>, <<ZERO, I>>>>}
ControlledMatrices == {X_MATRIX, H_MATRIX, <<<<ONE, ZERO>>, <<ZERO, CNeg(ONE)>>>>}

(* the draws handed to measure and reset; the last two are the largest     *)
(* draws below 1 and 1 itself                                              *)
Draws ==
    {RZero, RRat(1, 4), RRat(1, 2), RRat(3, 4), Open(FSub(FOne, DrawStep)), ROne}

(* the values written through set and amplitudes_mut                       *)
Written == {ZERO, ONE, from_real(RRat(1, 2))}

StoreQubits == 0 .. state.num_qubits - 1

InitStore ==
    /\ sim = Simulator_new
    /\ \E n \in 1 .. MaxStoreQubits :
          /\ circuit = Circuit_new(n)
          /\ state \in Constructed(n)
    /\ input = state
    /\ prev = state
    /\ measurements = << >>
    /\ counts = NoCounts
    /\ call = NoCall
    /\ ret = "Ok"
    /\ outcome = 0
    /\ calls = 0
    /\ before = sim
    /\ twin = Second(sim)

(* the store operation op(args) turned the store into sv and returned bit  *)
Operated(op, args, sv, bit) ==
    /\ prev' = state
    /\ state' = sv
    /\ outcome' = bit
    /\ call' = Call(op, args)
    /\ calls' = calls + 1
    /\ UNCHANGED <<sim, circuit, input, measurements, counts, ret, before, twin>>

ApplySingle ==
    /\ calls < MaxOps
    /\ \E q \in StoreQubits, m \in StoreMatrices :
        Operated("apply_single", <<q, m>>, apply_single(state, q, m), outcome)

ApplyControlled ==
    /\ calls < MaxOps
    /\ \E c, t \in StoreQubits, m \in ControlledMatrices :
        c # t /\ Operated("apply_controlled", <<c, t, m>>, apply_controlled(state, c, t, m), outcome)

ApplyTwo ==
    /\ calls < MaxOps
    /\ \E q0, q1 \in StoreQubits :
        q0 # q1 /\ Operated("apply_two", <<q0, q1, SWAP_MATRIX>>,
                            apply_two(state, q0, q1, SWAP_MATRIX), outcome)

(* the norm measure takes the square root of                               *)
CollapseNorm(random, prob_0) == IF RLess(random, prob_0) THEN prob_0 ELSE RSub(ROne, prob_0)

(* measure(q, r) stays within the model's numbers                          *)
InField(q, r) == SqrtInField(CollapseNorm(r, Prob0(state.amplitudes, q)))

Measured(q, r, m) == Operated("measure", <<q, r>>, m.state, m.result)

Measure ==
    /\ calls < MaxOps
    /\ \E q \in StoreQubits, r \in Draws :
        InField(q, r) /\ Measured(q, r, measure(state, q, r))

Reset ==
    /\ calls < MaxOps
    /\ \E q \in StoreQubits, r \in Draws :
        InField(q, r) /\ Operated("reset", <<q, r>>, reset(state, q, r), outcome)

Normalize ==
    /\ calls < MaxOps
    /\ SqrtInField(NormSqrSum(state.amplitudes))
    /\ Operated("normalize", << >>, normalize(state), outcome)

Set ==
    /\ calls < MaxOps
    /\ \E i \in DOMAIN state.amplitudes, v \in Written :
        Operated("set", <<i, v>>, set(state, i, v), outcome)

(* a write through the slice amplitudes_mut returns                        *)
AmplitudesMut ==
    /\ calls < MaxOps
    /\ \E i \in DOMAIN state.amplitudes, v \in Written :
        Operated("amplitudes_mut", <<i, v>>, [state EXCEPT !.amplitudes[i] = v], outcome)

NextStore ==
    \/ ApplySingle \/ ApplyControlled \/ ApplyTwo \/ Measure \/ Reset
    \/ Normalize \/ Set \/ AmplitudesMut

SpecStore == InitStore /\ [][NextStore]_vars



----------------------------------------------------------------------------
(* Two executors constructed the same way, given the same calls.           *)

(* the executors Simulator::new() can return: the default seed is a        *)
(* constant of the program                                                 *)
NewExecutorsClocked == {Simulator_new, [seed |-> << >>, rng_state |-> U64(0, 0, 0, 1)]}
NewExecutors == {Simulator_new}

(* the ways of constructing an executor, each with the executors it gives  *)
Constructions == {NewExecutors} \cup {{with_seed(s)} : s \in Seeds}

InitTwin ==
    /\ \E K \in Constructions : sim \in K /\ twin \in {Second(e) : e \in K}
    /\ circuit = Circuit_new(1)
    /\ input = new(1)
    /\ state = input
    /\ prev = input
    /\ measurements = << >>
    /\ counts = NoCounts
    /\ call = NoCall
    /\ ret = "Ok"
    /\ outcome = 0
    /\ calls = 0
    /\ before = sim

(* the second executor's call returned o                                   *)
TwinReturned(op, o) ==
    twin' = [sim |-> [twin.sim EXCEPT !.rng_state = o.rng_state],
             ret |-> o.err,
             state |-> IF o.err = "Ok" THEN o.state ELSE Panicked,
             measurements |-> IF o.err = "Ok" /\ op = "run_with_measurements"
                              THEN o.bits ELSE << >>,
             counts |-> NoCounts]

TwinHistogram(o) ==
    twin' = [sim |-> [twin.sim EXCEPT !.rng_state = o.rng_state],
             ret |-> o.err, state |-> Panicked, measurements |-> << >>,
             counts |-> o.counts]

BothRun ==
    \E c \in Circuits :
        /\ Given(c)
        /\ Returned("run", << >>, run(sim.rng_state, c))
        /\ TwinReturned("run", run(twin.sim.rng_state, c))

BothRunWithMeasurements ==
    \E c \in Circuits :
        /\ Given(c)
        /\ Returned("run_with_measurements", << >>, run_with_measurements(sim.rng_state, c))
        /\ TwinReturned("run_with_measurements",
                        run_with_measurements(twin.sim.rng_state, c))

BothSample ==
    \E c \in Circuits, shots \in 0 .. MaxShots :
        /\ Given(c)
        /\ Histogram(shots, sample(sim, c, shots))
        /\ TwinHistogram(sample(twin.sim, c, shots))

NextTwin == BothRun \/ BothRunWithMeasurements \/ BothSample

SpecTwin == InitTwin /\ [][NextTwin]_vars

----------------------------------------------------------------------------
(* Circuits with measurements, built method by method and executed by      *)
(* run_with_measurements.                                                  *)

RecordQubits == 2
RecordClbits == 2
MaxRecordDepth == 3

RecordSeeds == {U64(0, 0, 0, 42), U64(0, 0, 0, 12345)}

InitRecord ==
    /\ sim \in {with_seed(s) : s \in RecordSeeds}
    /\ circuit = with_clbits(RecordQubits, RecordClbits)
    /\ input = new(RecordQubits)
    /\ state = input
    /\ prev = input
    /\ measurements = << >>
    /\ counts = NoCounts
    /\ call = NoCall
    /\ ret = "Ok"
    /\ outcome = 0
    /\ calls = 0
    /\ before = sim
    /\ twin = Second(sim)

Staging == call = NoCall /\ Len(circuit.instructions) < MaxRecordDepth

StageX == Staging /\ \E q \in Qubits(circuit) : Built(Circuit_x(circuit, q))

StageH == Staging /\ \E q \in Qubits(circuit) : Built(Circuit_h(circuit, q))

StageCX ==
    /\ Staging
    /\ \E c, t \in Qubits(circuit) : c # t /\ Built(Circuit_cx(circuit, c, t))

StageMeasure ==
    /\ Staging
    /\ \E q \in Qubits(circuit), c \in 0 .. circuit.num_clbits - 1 :
          Built(Circuit_measure(circuit, q, c))

StageReset == Staging /\ \E q \in Qubits(circuit) : Built(Circuit_reset(circuit, q))

StageBarrier == Staging /\ Built(Circuit_barrier(circuit, << >>))

Execute ==
    /\ call = NoCall
    /\ Ran("run_with_measurements", << >>, run_with_measurements(sim.rng_state, circuit))
    /\ UNCHANGED <<circuit, input, prev>>

NextRecord ==
    \/ StageX \/ StageH \/ StageCX \/ StageMeasure \/ StageReset \/ StageBarrier
    \/ Execute

SpecRecord == InitRecord /\ [][NextRecord]_vars

----------------------------------------------------------------------------
(* Circuits that hold gates the builder has no method for: Circuit, Gate   *)
(* and Instruction derive Deserialize, so a circuit can arrive with any    *)
(* gate type and any parameter payload.                                    *)

LoadedQubits == 2

LoadedTypes == {"ISwap", "SqrtSwap", "CU", "CP", "Rx", "Ry", "Rz", "P", "U"}
Payloads == {<< >>, <<2>>, <<2, 1, 3>>}

LoadedInstructions ==
    {Instruction(GateOf(t, p),
                 IF t \in SingleQubitTypes THEN <<0>> ELSE <<0, 1>>, << >>) :
        t \in LoadedTypes, p \in Payloads}

(* the instruction alone, after an h, or before an x                       *)
LoadedCircuits ==
    {Circuit(LoadedQubits, 0, <<i>>) : i \in LoadedInstructions}
    \cup {push(Circuit_h(Circuit_new(LoadedQubits), 0), i) : i \in LoadedInstructions}
    \cup {Circuit_x(Circuit(LoadedQubits, 0, <<i>>), 1) : i \in LoadedInstructions}

InitLoaded ==
    /\ sim \in {Simulator_new, with_seed(U64(0, 0, 0, 42))}
    /\ circuit \in LoadedCircuits
    /\ input \in {new(LoadedQubits), uniform(LoadedQubits)}
    /\ state = input
    /\ prev = input
    /\ measurements = << >>
    /\ counts = NoCounts
    /\ call = NoCall
    /\ ret = "Ok"
    /\ outcome = 0
    /\ calls = 0
    /\ before = sim
    /\ twin = Second(sim)

(* sample on the circuit at hand                                           *)
SampleOwn ==
    /\ call = NoCall
    /\ \E shots \in 0 .. MaxShots : SampleReturned(shots, sample(sim, circuit, shots))
    /\ UNCHANGED <<circuit, input, prev>>

NextLoaded == Run \/ RunFromState \/ Execute \/ SampleOwn

SpecLoaded == InitLoaded /\ [][NextLoaded]_vars

----------------------------------------------------------------------------
(* The builder's public methods, called with any index up to one past the  *)
(* last valid one, and the executor's calls on what they built.            *)

MaxBuildQubits == 2
MaxBuildDepth == 2

(* H and S keep every measurement probability in {0, 1/2, 1}               *)
BuildGates == {GateOf(t, << >>) : t \in {"H", "S"}}

(* the circuits handed to compose besides the circuit's own inverse        *)
OtherCircuits ==
    {Circuit_x(Circuit_new(1), 0),
     Circuit_measure(with_clbits(1, 1), 0, 0),
     Circuit_new(MaxBuildQubits + 1)}

(* the states handed to run_from_state                                     *)
StartStates ==
    {new(n) : n \in 1 .. MaxBuildQubits}
    \cup {uniform(n) : n \in 1 .. MaxBuildQubits}

InitBuild ==
    /\ sim = with_seed(U64(0, 0, 0, 42))
    /\ \E n \in 1 .. MaxBuildQubits :
          /\ circuit \in {Circuit_new(n), with_clbits(n, 1)}
          /\ input = new(n)
    /\ state = input
    /\ prev = input
    /\ measurements = << >>
    /\ counts = NoCounts
    /\ call = NoCall
    /\ ret = "Ok"
    /\ outcome = 0
    /\ calls = 0
    /\ before = sim
    /\ twin = Second(sim)

Extending == call = NoCall /\ Len(circuit.instructions) < MaxBuildDepth
Finishing == call = NoCall /\ Len(circuit.instructions) \in 1 .. MaxBuildDepth

BuildSingle ==
    /\ Extending
    /\ \E g \in BuildGates, q \in 0 .. circuit.num_qubits : Built(AddGate(circuit, g, <<q>>))

BuildCX ==
    /\ Extending
    /\ \E c, t \in 0 .. circuit.num_qubits : c # t /\ Built(Circuit_cx(circuit, c, t))

BuildMeasure ==
    /\ Extending
    /\ \E q \in 0 .. circuit.num_qubits, c \in 0 .. circuit.num_clbits :
          Built(Circuit_measure(circuit, q, c))

BuildMeasureAll == Extending /\ Built(measure_all(circuit))

BuildReset ==
    /\ Extending
    /\ \E q \in 0 .. circuit.num_qubits : Built(Circuit_reset(circuit, q))

BuildBarrier == Extending /\ Built(Circuit_barrier(circuit, <<0>>))

BuildBarrierAll == Extending /\ Built(barrier_all(circuit))

(* compose returned r: an error ends the building                          *)
Composed(r) ==
    IF r.err = "Ok" THEN Built(r.circuit)
    ELSE /\ call' = Call("compose", << >>)
         /\ ret' = r.err
         /\ calls' = calls + 1
         /\ UNCHANGED <<sim, circuit, input, state, prev, measurements, counts, outcome,
                        before, twin>>

Compose ==
    /\ Finishing
    /\ \E other \in OtherCircuits \cup {inverse(circuit)} : Composed(compose(circuit, other))

Repeat == Finishing /\ \E n \in 0 .. 2 : Built(repeat(circuit, n))

Inverse == Finishing /\ Built(inverse(circuit))

RunFromGiven ==
    /\ call = NoCall
    /\ \E s \in StartStates :
          /\ input' = s
          /\ Ran("run_from_state", << >>, run_from_state(sim.rng_state, circuit, s))
    /\ UNCHANGED <<circuit, prev>>

NextBuild ==
    \/ BuildSingle \/ BuildCX \/ BuildMeasure \/ BuildMeasureAll \/ BuildReset
    \/ BuildBarrier \/ BuildBarrierAll \/ Compose \/ Repeat \/ Inverse
    \/ Run \/ Execute \/ RunFromGiven

SpecBuild == InitBuild /\ [][NextBuild]_vars

----------------------------------------------------------------------------
(* StateVector::from_amplitudes on raw lists.  In the initial state        *)
(* call.args holds the list drawn for the call.                            *)

MaxRawLen == 4

(* 1/46340, whose square 4.66e-10 is just above the tolerance              *)
SMALL == from_real(RRat(1, 46340))

RawValues ==
    {ZERO, ONE, from_real(INV_SQRT_2), Complex(RZero, RRat(1, 2)),
     from_real(RNaN), from_real(RInf)}

RawLists ==
    UNION {[1 .. n -> RawValues] : n \in 0 .. MaxRawLen}
    \cup {<<ONE, SMALL>>, <<SMALL, ONE>>}

InitConstruct ==
    /\ sim = Simulator_new
    /\ circuit = Circuit_new(1)
    /\ input = new(1)
    /\ state = input
    /\ prev = input
    /\ measurements = << >>
    /\ counts = NoCounts
    /\ \E list \in RawLists : call = [op |-> "none", args |-> <<list>>]
    /\ ret = "Ok"
    /\ outcome = 0
    /\ calls = 0
    /\ before = sim
    /\ twin = Second(sim)

(* from_amplitudes returned r = [err, sv]                                  *)
ConstructedFrom(r) ==
    /\ call' = Call("from_amplitudes", call.args)
    /\ ret' = r.err
    /\ state' = r.sv
    /\ prev' = state
    /\ calls' = calls + 1
    /\ UNCHANGED <<sim, circuit, input, measurements, counts, outcome, before, twin>>

FromAmplitudes ==
    /\ call.op = "none"
    /\ ConstructedFrom(from_amplitudes(call.args[1]))

NextConstruct == FromAmplitudes

SpecConstruct == InitConstruct /\ [][NextConstruct]_vars

----------------------------------------------------------------------------
(* Registers by size.  StateVector::new allocates 1 << num_qubits          *)
(* amplitudes whatever num_qubits is; a register too large to enumerate is *)
(* held by the length of its array (as a power of two) and the entries     *)
(* that are not zero.                                                      *)

MAX_QUBITS == 30
MaxAllocQubits == 33

(* vec![Complex::ZERO; 1 << num_qubits] with amplitudes[0] = ONE           *)
Allocated(num_qubits) ==
    [num_qubits |-> num_qubits, log2_len |-> num_qubits, nonzero |-> <<0, ONE>>]

(* vec! returns, or the process aborts when the allocator has no memory    *)
AllocationOutcomes == {"Ok", "abort"}

(* circuits whose instructions leave the amplitudes alone                  *)
IdleCircuits ==
    UNION {{Circuit_new(n), barrier_all(Circuit_new(n))} : n \in 0 .. MaxAllocQubits}

InitAllocate ==
    /\ sim \in {Simulator_new, with_seed(U64(0, 0, 0, 42))}
    /\ circuit \in IdleCircuits
    /\ input = new(1)
    /\ state = input
    /\ prev = input
    /\ measurements = << >>
    /\ counts = NoCounts
    /\ call = NoCall
    /\ ret = "Ok"
    /\ outcome = 0
    /\ calls = 0
    /\ before = sim
    /\ twin = Second(sim)

(* a call that allocated a register of num_qubits qubits returned o        *)
AllocatedBy(op, args, num_qubits, o) ==
    /\ call = NoCall
    /\ call' = Call(op, args)
    /\ ret' = o
    /\ state' = IF o = "Ok" THEN Allocated(num_qubits) ELSE Panicked
    /\ prev' = state
    /\ calls' = calls + 1
    /\ before' = sim
    /\ UNCHANGED <<sim, circuit, input, counts, outcome, twin>>

(* StateVector::new(num_qubits)                                            *)
NewStateVector ==
    \E o \in AllocationOutcomes :
        /\ AllocatedBy("new", <<circuit.num_qubits>>, circuit.num_qubits, o)
        /\ UNCHANGED measurements

(* Simulator::run = run_from_state(circuit, StateVector::new(n)); the      *)
(* qubit counts agree and every instruction is a Barrier                   *)
RunIdle ==
    \E o \in AllocationOutcomes :
        /\ AllocatedBy("run", <<circuit>>, circuit.num_qubits, o)
        /\ UNCHANGED measurements

(* Simulator::run_with_measurements                                        *)
RunIdleWithMeasurements ==
    \E o \in AllocationOutcomes :
        /\ AllocatedBy("run_with_measurements", <<circuit>>, circuit.num_qubits, o)
        /\ measurements' = IF o = "Ok" THEN MeasurementResult_new(circuit.num_clbits)
                           ELSE << >>

NextAllocate == NewStateVector \/ RunIdle \/ RunIdleWithMeasurements

SpecAllocate == InitAllocate /\ [][NextAllocate]_vars

----------------------------------------------------------------------------
(* The operations of the amplitude store called with qubit indices that    *)
(* the store does not have: at least one index of every call is            *)
(* num_qubits or num_qubits + 1.                                           *)

MaxPast == 1

(* the indices a call may name, and those among them the store lacks       *)
Named == 0 .. state.num_qubits + MaxPast
Lacking == {q \in Named : q >= state.num_qubits}

Unchecked == calls < MaxOps /\ ~IsPanic(state)

ApplySingleAt ==
    /\ Unchecked
    /\ \E q \in Lacking, m \in StoreMatrices :
        Operated("apply_single", <<q, m>>, apply_single(state, q, m), outcome)

ApplyControlledAt ==
    /\ Unchecked
    /\ \E c, t \in Named, m \in ControlledMatrices :
        /\ c # t
        /\ {c, t} \cap Lacking # {}
        /\ Operated("apply_controlled", <<c, t, m>>, apply_controlled(state, c, t, m), outcome)

ApplyTwoAt ==
    /\ Unchecked
    /\ \E q0, q1 \in Named :
        /\ q0 # q1
        /\ {q0, q1} \cap Lacking # {}
        /\ Operated("apply_two", <<q0, q1, SWAP_MATRIX>>,
                    apply_two(state, q0, q1, SWAP_MATRIX), outcome)

MeasureAt ==
    /\ Unchecked
    /\ \E q \in Lacking, r \in Draws :
        InField(q, r) /\ Measured(q, r, measure(state, q, r))

ResetAt ==
    /\ Unchecked
    /\ \E q \in Lacking, r \in Draws :
        InField(q, r) /\ Operated("reset", <<q, r>>, reset(state, q, r), outcome)

NextUnchecked ==
    ApplySingleAt \/ ApplyControlledAt \/ ApplyTwoAt \/ MeasureAt \/ ResetAt

SpecUnchecked == InitStore /\ [][NextUnchecked]_vars

----------------------------------------------------------------------------
(* IEEE double arithmetic, for the operations of measure whose rounding    *)
(* decides an outcome.  A natural number is the sequence of its base-2^15  *)
(* digits, least significant first, without leading zeros (0 is << >>).    *)
(* A double is [neg, m, e] with value (-1)^neg * m * 2^e, m of exactly 53  *)
(* bits, or m = << >> for zero (the sign of zero is not kept).  Infinities, *)
(* NaN and subnormal numbers are outside this arithmetic.                  *)

Limb == Pow2(15)

RECURSIVE BTrim(_)
BTrim(a) ==
    IF a = << >> THEN a
    ELSE IF a[Len(a)] = 0 THEN BTrim(SubSeq(a, 1, Len(a) - 1))
    ELSE a

BLimb(a, i) == IF i <= Len(a) THEN a[i] ELSE 0

RECURSIVE BAddFrom(_, _, _, _)
BAddFrom(a, b, i, c) ==
    IF i > Len(a) /\ i > Len(b) THEN (IF c = 0 THEN << >> ELSE <<c>>)
    ELSE <<(BLimb(a, i) + BLimb(b, i) + c) % Limb>>
         \o BAddFrom(a, b, i + 1, (BLimb(a, i) + BLimb(b, i) + c) \div Limb)
BAdd(a, b) == BAddFrom(a, b, 1, 0)

(* a - b for a >= b                                                        *)
RECURSIVE BSubFrom(_, _, _, _)
BSubFrom(a, b, i, c) ==
    IF i > Len(a) THEN << >>
    ELSE <<(BLimb(a, i) - BLimb(b, i) - c + Limb) % Limb>>
         \o BSubFrom(a, b, i + 1, IF BLimb(a, i) - BLimb(b, i) - c < 0 THEN 1 ELSE 0)
BSub(a, b) == BTrim(BSubFrom(a, b, 1, 0))

BLess(a, b) ==
    IF Len(a) # Len(b) THEN Len(a) < Len(b)
    ELSE \E i \in 1 .. Len(a) :
            a[i] < b[i] /\ \A j \in i + 1 .. Len(a) : a[j] = b[j]

(* a * k for 0 <= k < 2^15                                                 *)
RECURSIVE BMulSmallFrom(_, _, _, _)
BMulSmallFrom(a, k, i, c) ==
    IF i > Len(a) THEN (IF c = 0 THEN << >> ELSE <<c>>)
    ELSE <<(a[i] * k + c) % Limb>> \o BMulSmallFrom(a, k, i + 1, (a[i] * k + c) \div Limb)
BMulSmall(a, k) == BTrim(BMulSmallFrom(a, k, 1, 0))

(* a * 2^(15 n)                                                            *)
BShiftLimbs(a, n) == IF a = << >> THEN a ELSE [j \in 1 .. n |-> 0] \o a

RECURSIVE BMulFrom(_, _, _)
BMulFrom(a, b, j) ==
    IF j > Len(b) THEN << >>
    ELSE BAdd(BShiftLimbs(BMulSmall(a, b[j]), j - 1), BMulFrom(a, b, j + 1))
BMul(a, b) == BMulFrom(a, b, 1)

(* a << k and a >> k                                                       *)
BShl(a, k) == BShiftLimbs(BMulSmall(a, Pow2(k % 15)), k \div 15)
BDropLimbs(a, n) == IF n >= Len(a) THEN << >> ELSE SubSeq(a, n + 1, Len(a))
BShrBits(a, r) ==
    BTrim([i \in 1 .. Len(a) |->
              (a[i] \div Pow2(r)) + (BLimb(a, i + 1) % Pow2(r)) * Pow2(15 - r)])
BShr(a, k) == BShrBits(BDropLimbs(a, k \div 15), k % 15)

(* the number of bits of a > 0                                             *)
BBitLen(a) ==
    15 * (Len(a) - 1)
    + (CHOOSE n \in 1 .. 15 : Pow2(n - 1) <= a[Len(a)] /\ a[Len(a)] < Pow2(n))

BOdd(a) == a # << >> /\ a[1] % 2 = 1

(* The greatest r with r * r <= n and the greatest q with q * d <= n are    *)
(* found bit by bit, from the highest bit down.  The bits hi .. lo are     *)
(* tried as those of the upper half of the range and then those of the     *)
(* lower half.                                                             *)
BSqrtStep(n, r, bit) ==
    IF BLess(n, BMul(BAdd(r, BShl(<<1>>, bit)), BAdd(r, BShl(<<1>>, bit)))) THEN r
    ELSE BAdd(r, BShl(<<1>>, bit))

RECURSIVE BSqrtBits(_, _, _, _)
BSqrtBits(n, r, hi, lo) ==
    IF Len(r) < 0 \/ hi < lo THEN r
    ELSE IF hi = lo THEN BSqrtStep(n, r, hi)
    ELSE BSqrtBits(n, BSqrtBits(n, r, hi, ((hi + lo) \div 2) + 1), (hi + lo) \div 2, lo)
BSqrt(n) == BSqrtBits(n, << >>, BBitLen(n) \div 2, 0)

BDivStep(n, d, q, bit) ==
    IF BLess(n, BMul(BAdd(q, BShl(<<1>>, bit)), d)) THEN q
    ELSE BAdd(q, BShl(<<1>>, bit))

RECURSIVE BDivBits(_, _, _, _, _)
BDivBits(n, d, q, hi, lo) ==
    IF Len(q) < 0 \/ hi < lo THEN q
    ELSE IF hi = lo THEN BDivStep(n, d, q, hi)
    ELSE BDivBits(n, d, BDivBits(n, d, q, hi, ((hi + lo) \div 2) + 1), (hi + lo) \div 2, lo)
BDiv(n, d) == BDivBits(n, d, << >>, BBitLen(n), 0)

Double(neg, m, e) == [neg |-> neg, m |-> m, e |-> e]
DZero == Double(FALSE, << >>, 0)

(* q * 2^e for q of 53 or (after a carry out of the rounding) 54 bits      *)
Carried(neg, q, e) ==
    IF BBitLen(q) > 53 THEN Double(neg, BShr(q, 1), e + 1) ELSE Double(neg, q, e)

(* n of more than 53 bits rounded to q = n >> d: round to nearest, ties to *)
(* even; more says that the exact value is above n * 2^e                   *)
RoundedAt(neg, n, q, d, more, e) ==
    IF \/ BLess(BShl(<<1>>, d - 1), BSub(n, BShl(q, d)))
       \/ /\ BSub(n, BShl(q, d)) = BShl(<<1>>, d - 1)
          /\ (more \/ BOdd(q))
    THEN Carried(neg, BAdd(q, <<1>>), e + d)
    ELSE Double(neg, q, e + d)

(* the double nearest to n * 2^e (n a natural number; with more, a value   *)
(* strictly between n * 2^e and (n + 1) * 2^e, n of at least 54 bits)      *)
Rounded(neg, n, more, e) ==
    IF n = << >> THEN DZero
    ELSE IF BBitLen(n) <= 53 THEN
        Double(neg, BShl(n, 53 - BBitLen(n)), e - (53 - BBitLen(n)))
    ELSE RoundedAt(neg, n, BShr(n, BBitLen(n) - 53), BBitLen(n) - 53, more, e)

(* the double k * 2^e for a small k                                        *)
DFrom(k, e) == Rounded(FALSE, IF k = 0 THEN << >> ELSE <<k>>, FALSE, e)
DOne == DFrom(1, 0)

DMul(a, b) ==
    IF a.m = << >> \/ b.m = << >> THEN DZero
    ELSE Rounded(a.neg # b.neg, BMul(a.m, b.m), FALSE, a.e + b.e)

(* |a| < |b|                                                               *)
DMagLess(a, b) ==
    IF b.m = << >> THEN FALSE
    ELSE IF a.m = << >> THEN TRUE
    ELSE IF a.e # b.e THEN a.e < b.e
    ELSE BLess(a.m, b.m)

(* a < b                                                                   *)
DLess(a, b) ==
    IF a.neg /\ ~b.neg THEN a.m # << >> \/ b.m # << >>
    ELSE IF ~a.neg /\ b.neg THEN FALSE
    ELSE IF a.neg THEN DMagLess(b, a)
    ELSE DMagLess(a, b)

(* the mantissas of a and b over the smaller of the two exponents          *)
Aligned(a, b) == BShl(a.m, a.e - (IF a.e < b.e THEN a.e ELSE b.e))
LowExp(a, b) == IF a.e < b.e THEN a.e ELSE b.e

DAdd(a, b) ==
    IF a.m = << >> THEN b
    ELSE IF b.m = << >> THEN a
    ELSE IF a.neg = b.neg THEN
        Rounded(a.neg, BAdd(Aligned(a, b), Aligned(b, a)), FALSE, LowExp(a, b))
    ELSE IF DMagLess(a, b) THEN
        Rounded(b.neg, BSub(Aligned(b, a), Aligned(a, b)), FALSE, LowExp(a, b))
    ELSE Rounded(a.neg, BSub(Aligned(a, b), Aligned(b, a)), FALSE, LowExp(a, b))

DNeg(a) == IF a.m = << >> THEN a ELSE [a EXCEPT !.neg = ~a.neg]
DSub(a, b) == DAdd(a, DNeg(b))

(* a / b for b # 0: the quotient of a.m * 2^56 by b.m has 56 or 57 bits    *)
DDivided(a, b, q) ==
    Rounded(a.neg # b.neg, q, BMul(q, b.m) # BShl(a.m, 56), a.e - b.e - 56)
DDiv(a, b) ==
    IF b.m = << >> THEN Unrepresentable
    ELSE IF a.m = << >> THEN DZero
    ELSE DDivided(a, b, BDiv(BShl(a.m, 56), b.m))

(* sqrt(a) for a >= 0: the root of a.m * 2^s, s = 56 or 57 with a.e - s    *)
(* even, has 54 or 55 bits                                                 *)
DSqrtShift(a) == IF (a.e - 56) % 2 = 0 THEN 56 ELSE 57
DRooted(a, r, s) ==
    Rounded(FALSE, r, BMul(r, r) # BShl(a.m, s), (a.e - s) \div 2)
DSqrt(a) ==
    IF a.m = << >> THEN DZero
    ELSE IF a.neg THEN Unrepresentable
    ELSE DRooted(a, BSqrt(BShl(a.m, DSqrtShift(a))), DSqrtShift(a))

----------------------------------------------------------------------------
(* The amplitude store with amplitudes in doubles: the constructors and    *)
(* measure, operation by operation as statevector.rs computes them.        *)

ZERO_f64 == Complex(DZero, DZero)
ONE_f64 == Complex(DOne, DZero)

(* self.re * self.re + self.im * self.im                                   *)
norm_sqr_f64(c) == DAdd(DMul(c.re, c.re), DMul(c.im, c.im))

new_f64(num_qubits) ==
    StateVector(num_qubits,
                [i \in 0 .. Pow2(num_qubits) - 1 |-> IF i = 0 THEN ONE_f64 ELSE ZERO_f64])

(* amp = 1.0 / (dim as f64).sqrt()                                         *)
uniform_f64(num_qubits) ==
    StateVector(num_qubits,
                [i \in 0 .. Pow2(num_qubits) - 1 |->
                    Complex(DDiv(DOne, DSqrt(DFrom(Pow2(num_qubits), 0))), DZero)])

(* prob_0: the sum, in index order from 0.0, of norm_sqr over the indices  *)
(* i >= from with bit qubit = 0                                            *)
RECURSIVE SumFrom(_, _, _, _)
SumFrom(amps, from, qubit, acc) ==
    IF from \notin DOMAIN amps THEN acc
    ELSE SumFrom(amps, from + 1, qubit,
                 IF Bit(from, qubit) = 0 THEN DAdd(acc, norm_sqr_f64(amps[from])) ELSE acc)
Prob0_f64(amps, qubit) == SumFrom(amps, 0, qubit, DZero)

(* the collapse loop: Complex * f64 multiplies both parts                  *)
Collapsed_f64(sv, qubit, result, inv_sqrt_norm) ==
    [state |->
        [sv EXCEPT !.amplitudes =
            [i \in DOMAIN sv.amplitudes |->
                IF (result = 0 /\ Bit(i, qubit) # 0) \/ (result = 1 /\ Bit(i, qubit) = 0)
                THEN ZERO_f64
                ELSE Complex(DMul(sv.amplitudes[i].re, inv_sqrt_norm),
                             DMul(sv.amplitudes[i].im, inv_sqrt_norm))]],
     result |-> result]

(* norm = if result == 0 { prob_0 } else { 1.0 - prob_0 };                 *)
(* inv_sqrt_norm = 1.0 / norm.sqrt()                                       *)
CollapseTo_f64(sv, qubit, result, prob_0) ==
    Collapsed_f64(sv, qubit, result,
                  DDiv(DOne, DSqrt(IF result = 0 THEN prob_0 ELSE DSub(DOne, prob_0))))

MeasureGiven_f64(sv, qubit, random, prob_0) ==
    CollapseTo_f64(sv, qubit, IF DLess(random, prob_0) THEN 0 ELSE 1, prob_0)

measure_f64(sv, qubit, random) ==
    MeasureGiven_f64(sv, qubit, random, Prob0_f64(sv.amplitudes, qubit))

(* the draws: 0, 1/4, 1/2, 3/4 and the two largest doubles below 1, which  *)
(* next_random returns for the generator states from 2^64 - 5 * 2^10 up    *)
BelowOne(k) == Rounded(FALSE, BSub(BShl(<<1>>, 53), <<k>>), FALSE, -53)
DoubleDraws ==
    {DZero, DFrom(1, -2), DFrom(1, -1), DFrom(3, -2), BelowOne(2), BelowOne(1)}

InitDouble ==
    /\ sim = Simulator_new
    /\ \E n \in 1 .. MaxStoreQubits :
          /\ circuit = Circuit_new(n)
          /\ state \in {new_f64(n), uniform_f64(n)}
    /\ input = state
    /\ prev = state
    /\ measurements = << >>
    /\ counts = NoCounts
    /\ call = NoCall
    /\ ret = "Ok"
    /\ outcome = 0
    /\ calls = 0
    /\ before = sim
    /\ twin = Second(sim)

MeasureDouble ==
    /\ calls < MaxOps
    /\ \E q \in StoreQubits, r \in DoubleDraws : Measured(q, r, measure_f64(state, q, r))

NextDouble == MeasureDouble

SpecDouble == InitDouble /\ [][NextDouble]_vars
----------------------------------------------------------------------------
(* Properties.  The definitions below state what the specification says of *)
(* the program, in terms that do not reuse the kernels: sums over index    *)
(* sets, index permutations and products instead of divisions.             *)

Instructions == circuit.instructions
TypeAt(k) == Instructions[k].gate.gate_type
QubitsAt(k) == Instructions[k].qubits

UnitaryTypes ==
    SingleQubitTypes \cup {"CX", "CY", "CZ", "CH", "CP", "Swap", "CCX", "CSwap"}

RunReturned == call.op \in {"run", "run_from_state"} /\ ret = "Ok"

(* the circuit that ran is the one instruction of type t                   *)
RanOne(t) == RunReturned /\ Len(Instructions) = 1 /\ TypeAt(1) = t

Indices(sv) == DOMAIN sv.amplitudes

(* the sum of |amplitude|^2 over the indices of S                          *)
RECURSIVE SumOver(_, _)
SumOver(sv, S) ==
    IF S = {} THEN RZero
    ELSE RAdd(probability(sv, MaxOf(S)), SumOver(sv, S \ {MaxOf(S)}))

TotalProbability(sv) == SumOver(sv, Indices(sv))
Normalized(sv) == ~IsPanic(sv) /\ REq(TotalProbability(sv), ROne)

(* the probability of reading b on qubit q                                 *)
Marginal(sv, q, b) == SumOver(sv, {i \in Indices(sv) : Bit(i, q) = b})

(* all the probability of sv is at index j                                 *)
AllAt(sv, j) ==
    \A i \in Indices(sv) : REq(probability(sv, i), IF i = j THEN ROne ELSE RZero)

(* sv is the basis state |b>                                               *)
IsBasis(sv, b) ==
    \A i \in Indices(sv) : sv.amplitudes[i] = (IF i = b THEN ONE ELSE ZERO)
BasisInput == \E b \in Indices(input) : IsBasis(input, b)
BasisIndex == CHOOSE b \in Indices(input) : IsBasis(input, b)

InUnitInterval(r) == ~RLess(r, RZero) /\ RLess(r, ROne)

(* i with the bits a and b exchanged                                       *)
SwapBits(i, a, b) ==
    IF Bit(i, a) = Bit(i, b) THEN i ELSE FlipBit(FlipBit(i, a), b)

(* the Toffoli permutation: bit t flipped when bits c1 and c2 are both 1   *)
ToffoliIndex(i, c1, c2, t) ==
    IF Bit(i, c1) = 1 /\ Bit(i, c2) = 1 THEN FlipBit(i, t) ELSE i

(* C1: after run returns for a circuit made only of unitary gates on       *)
(* distinct in-range qubits, started from |0...0>, the probabilities of    *)
(* the returned state sum to 1.                                            *)
C1_ProbabilitySumsToOne ==
    (/\ call.op = "run"
     /\ \A k \in 1 .. Len(Instructions) : TypeAt(k) \in UnitaryTypes)
    => (ret = "Ok" /\ REq(TotalProbability(state), ROne))

(* C1 witness: run returned for h followed by ccx on three qubits, and the *)
(* state it returned is spread over more than one index.                   *)
C1_Witness ==
    /\ call.op = "run" /\ ret = "Ok"
    /\ Len(Instructions) = 2 /\ TypeAt(1) = "H" /\ TypeAt(2) = "CCX"
    /\ \E i \in Indices(state) : RLess(RZero, probability(state, i))
                                 /\ RLess(probability(state, i), ROne)
    /\ REq(TotalProbability(state), ROne)

(* C2: the squared norm of the store is 1 after every public operation of  *)
(* the store, set and writes through amplitudes_mut included.              *)
C2_NormIsOne == REq(TotalProbability(state), ROne)

C5_ToffoliUpToGlobalPhase ==
    RanOne("CCX")
    => LET c1 == QubitsAt(1)[1]
           c2 == QubitsAt(1)[2]
           t == QubitsAt(1)[3]
           want == [i \in Indices(input) |->
                        input.amplitudes[ToffoliIndex(i, c1, c2, t)]]
       IN /\ \A i, j \in Indices(state) :
                CEq(CMul(state.amplitudes[i], want[j]),
                    CMul(state.amplitudes[j], want[i]))
          /\ \A i \in Indices(state) :
                REq(probability(state, i), norm_sqr(want[i]))

(* C6: on each of the 8 basis inputs of three qubits (and on every basis   *)
(* input of the qubits involved), CCX leaves all the probability at the    *)
(* index with the target flipped exactly when both controls are 1.         *)
C6_ToffoliTruthTable ==
    (RanOne("CCX") /\ BasisInput)
    => AllAt(state, ToffoliIndex(BasisIndex, QubitsAt(1)[1], QubitsAt(1)[2],
                                 QubitsAt(1)[3]))

(* C6 witness: ccx(1, 2, 0) ran on |110> and left the probability at       *)
(* |111>.                                                                  *)
C6_Witness ==
    /\ RanOne("CCX")
    /\ QubitsAt(1) = <<1, 2, 0>>
    /\ IsBasis(input, 6)
    /\ AllAt(state, 7)

(* C7: CX flips the target exactly when the control is 1, on every basis   *)
(* input, register size and pair of distinct qubits; and a controlled gate *)
(* (CX, CY, CZ, CH, CP) leaves every amplitude whose control bit is 0 as   *)
(* it was, on arbitrary states.                                            *)
C7_Controlled ==
    /\ (RanOne("CX") /\ BasisInput)
       => AllAt(state, IF Bit(BasisIndex, QubitsAt(1)[1]) = 1
                       THEN FlipBit(BasisIndex, QubitsAt(1)[2])
                       ELSE BasisIndex)
    /\ (RunReturned /\ Len(Instructions) = 1
        /\ TypeAt(1) \in {"CX", "CY", "CZ", "CH", "CP"})
       => \A i \in Indices(state) :
             Bit(i, QubitsAt(1)[1]) = 0 => state.amplitudes[i] = input.amplitudes[i]

(* C7 witness: cx(2, 0) ran on the product state of three qubits, moved    *)
(* amplitudes and left those with control bit 0 in place.                  *)
C7_Witness ==
    /\ RanOne("CX")
    /\ QubitsAt(1) = <<2, 0>>
    /\ ~BasisInput
    /\ state.amplitudes[4] = input.amplitudes[5]
    /\ state.amplitudes[4] # input.amplitudes[4]
    /\ state.amplitudes[1] = input.amplitudes[1]

(* C8: SWAP(a, b) moves the amplitude of every index to the index with the *)
(* bits a and b exchanged, SWAP(a, b) and SWAP(b, a) leave the same state, *)
(* and x(0) followed by swap(0, 1) on |00> leaves all the probability at   *)
(* index 0b10.                                                             *)
C8_Swap ==
    /\ RanOne("Swap")
       => /\ \A i \in Indices(state) :
                state.amplitudes[i] =
                    input.amplitudes[SwapBits(i, QubitsAt(1)[1], QubitsAt(1)[2])]
          /\ state = apply_two(input, QubitsAt(1)[2], QubitsAt(1)[1], SWAP_MATRIX)
    /\ (/\ call.op = "run"
        /\ circuit.num_qubits = 2
        /\ Len(Instructions) = 2
        /\ TypeAt(1) = "X" /\ QubitsAt(1) = <<0>>
        /\ TypeAt(2) = "Swap" /\ QubitsAt(2) = <<0, 1>>)
       => (ret = "Ok" /\ AllAt(state, 2))

(* C8 witness: swap(0, 2) ran on the product state of three qubits and     *)
(* changed it.                                                             *)
C8_Witness ==
    /\ RanOne("Swap")
    /\ QubitsAt(1) = <<0, 2>>
    /\ circuit.num_qubits = 3
    /\ state # input
    /\ state.amplitudes[1] = input.amplitudes[4]

(* C9: h(0) followed by cx(0,1), ..., cx(n-2,n-1), run from |0...0>,       *)
(* leaves probability exactly 1/2 at index 0 and at index 2^n - 1 and 0 at *)
(* every other index.                                                      *)
C9_GHZ ==
    \A n \in 2 .. MaxGHZ :
        (call.op = "run" /\ circuit = GHZ(n))
        => /\ ret = "Ok"
           /\ \A i \in Indices(state) :
                 REq(probability(state, i),
                     IF i = 0 \/ i = Pow2(n) - 1 THEN RRat(1, 2) ELSE RZero)

(* C9 witness: run returned for the chain on three qubits, with half of    *)
(* the probability at index 7.                                             *)
C9_Witness ==
    /\ call.op = "run" /\ ret = "Ok"
    /\ circuit = GHZ(3)
    /\ REq(probability(state, 7), RRat(1, 2))

(* C10: for every seed and shot count, sample of h(0).cx(0,1).measure_all  *)
(* counts only the records "00" and "11".                                  *)
C10_BellCorrelated ==
    (call.op = "sample" /\ circuit = BellMeasured)
    => (ret = "Ok" /\ DOMAIN counts \subseteq {<<"0", "0">>, <<"1", "1">>})

C12_SampleIgnoresHistory ==
    (call.op = "sample" /\ sim.seed # << >>)
    => /\ ret = sample(with_seed(sim.seed[1]), circuit, call.args[1]).err
       /\ counts = sample(with_seed(sim.seed[1]), circuit, call.args[1]).counts

(* C12 witness: sample of two shots returned a nonempty histogram on a     *)
(* seeded executor whose generator an earlier call had moved away from the *)
(* seed.                                                                   *)
C12_Witness ==
    /\ call = Call("sample", <<2>>)
    /\ sim.seed # << >>
    /\ before.rng_state # sim.seed[1]
    /\ circuit = BellMeasured
    /\ ret = "Ok"
    /\ counts # NoCounts

(* the generator state sample starts its first shot from on executor e     *)
StartOf(e) == IF e.seed # << >> THEN e.seed[1] ELSE e.rng_state

(* the records of k executions of run_with_measurements(c) in sequence,    *)
(* the first from generator state rng, each from |0...0> and a zero        *)
(* record, the generator carried over; Following is the rest after one     *)
(* execution returned o                                                    *)
RECURSIVE ShotRecords(_, _, _)
RECURSIVE Following(_, _, _)
ShotRecords(c, rng, k) ==
    IF k = 0 THEN << >> ELSE Following(c, run_with_measurements(rng, c), k)
Following(c, o, k) == <<o.bits>> \o ShotRecords(c, o.rng_state, k - 1)

(* the key of a record: character k is classical bit k                     *)
KeyOf(bits) == [k \in 1 .. Len(bits) |-> IF bits[k] = 1 THEN "1" ELSE "0"]

HistogramOf(records) ==
    [key \in {KeyOf(records[i]) : i \in DOMAIN records} |->
        Cardinality({i \in DOMAIN records : KeyOf(records[i]) = key})]

RECURSIVE SumCounts(_, _)
SumCounts(h, keys) ==
    IF keys = {} THEN 0
    ELSE h[CHOOSE k \in keys : TRUE]
         + SumCounts(h, keys \ {CHOOSE k \in keys : TRUE})

(* C13: a successful sample(circuit, shots) returns the histogram of the   *)
(* records of shots executions of run_with_measurements in sequence on one *)
(* generator stream; the counts sum to shots and every key has num_clbits  *)
(* characters.                                                             *)
C13_SampleIsRepeatedRun ==
    (call.op = "sample" /\ ret = "Ok")
    => /\ counts = HistogramOf(ShotRecords(circuit, StartOf(before), call.args[1]))
       /\ SumCounts(counts, DOMAIN counts) = call.args[1]
       /\ \A key \in DOMAIN counts : Len(key) = circuit.num_clbits

(* C13 witness: sample of two shots on a measured circuit returned a       *)
(* histogram in which one key of num_clbits characters was counted twice.  *)
C13_Witness ==
    /\ call = Call("sample", <<2>>)
    /\ ret = "Ok"
    /\ circuit.num_clbits > 0
    /\ \E key \in DOMAIN counts : counts[key] = 2 /\ Len(key) = circuit.num_clbits

(* the bit a qubit holds in a state in which it is determined               *)
ObservedBit(sv, q) == IF REq(Marginal(sv, q, 1), ROne) THEN 1 ELSE 0

(* The record the instructions from position i on leave, by the rule of    *)
(* the measurement record: a Measure writes the bit its qubit holds after  *)
(* it to the slot it names, nothing else writes.  The state and the        *)
(* generator follow the executor; Noted is the record after the            *)
(* instruction at i left state o.state.                                    *)
RECURSIVE LastWrites(_, _, _, _, _)
RECURSIVE Noted(_, _, _, _)
LastWrites(insts, i, rng, sv, rec) ==
    IF i > Len(insts) THEN rec
    ELSE Noted(insts, i,
               apply_instruction(rng, sv, insts[i].gate, insts[i].qubits,
                                 insts[i].clbits, rec),
               rec)
Noted(insts, i, o, rec) ==
    LastWrites(insts, i + 1, o.rng_state, o.state,
               IF insts[i].gate.gate_type = "Measure"
               THEN [rec EXCEPT ![insts[i].clbits[1] + 1] =
                                    ObservedBit(o.state, insts[i].qubits[1])]
               ELSE rec)

(* C14: in the record run_with_measurements returns, slot c holds the      *)
(* outcome of the last Measure naming c and 0 if none names it; no other   *)
(* instruction (gate, Reset, Barrier) changes a slot.                      *)
C14_RecordHoldsLastMeasure ==
    (call.op = "run_with_measurements" /\ ret = "Ok")
    => /\ Len(measurements) = circuit.num_clbits
       /\ measurements =
             LastWrites(circuit.instructions, 1, before.rng_state,
                        new(circuit.num_qubits),
                        [c \in 1 .. circuit.num_clbits |-> 0])

(* C14 witness: x(0).measure(0,0).measure(1,0) was executed: slot 0 was    *)
(* written 1 and then 0, slot 1 was never written.                         *)
C14_Witness ==
    /\ call.op = "run_with_measurements" /\ ret = "Ok"
    /\ circuit = Circuit_measure(Circuit_measure(
                     Circuit_x(with_clbits(2, 2), 0), 0, 0), 1, 0)
    /\ measurements = <<0, 0>>
    /\ ObservedBit(state, 0) = 1

(* the payload shape the type of a parameterized gate requires             *)
Parameterized == {"Rx", "Ry", "Rz", "P", "U", "CP"}
WellFormed(gate) ==
    IF gate.gate_type \in {"Rx", "Ry", "Rz", "P", "CP"} THEN Len(gate.params) = 1
    ELSE IF gate.gate_type = "U" THEN Len(gate.params) = 3
    ELSE TRUE

(* a call that executes the circuit at least once                          *)
Executed ==
    \/ call.op \in {"run", "run_from_state", "run_with_measurements"}
    \/ call.op = "sample" /\ call.args[1] >= 1

(* C15: executing a circuit that holds a parameterized gate (Rx, Ry, Rz,   *)
(* P, U, CP) whose payload has not the shape of its type fails with        *)
(* NotSupported; it does not return success.                               *)
C15_MalformedGateRejected ==
    (Executed /\ \E k \in 1 .. Len(Instructions) :
                    TypeAt(k) \in Parameterized /\ ~WellFormed(Instructions[k].gate))
    => ret = "NotSupported"

NoPath == {"ISwap", "SqrtSwap", "CU"}

(* C16: executing a circuit that holds an iSWAP, sqrt-SWAP or CU gate      *)
(* makes run, run_from_state, run_with_measurements and sample of at least *)
(* one shot return NotSupported, with no state, record or histogram.       *)
C16_NoPathRejected ==
    (Executed /\ \E k \in 1 .. Len(Instructions) : TypeAt(k) \in NoPath)
    => /\ ret = "NotSupported"
       /\ counts = NoCounts
       /\ IsPanic(state)
       /\ measurements = << >>

(* C16 witness: sample of two shots on h(0) followed by an iSWAP returned  *)
(* NotSupported and an empty histogram.                                    *)
C16_Witness ==
    /\ call = Call("sample", <<2>>)
    /\ Len(Instructions) = 2 /\ TypeAt(1) = "H" /\ TypeAt(2) = "ISwap"
    /\ ret = "NotSupported"
    /\ counts = NoCounts

(* every index an instruction of c names is below the circuit's size       *)
InRange(c) ==
    \A k \in 1 .. Len(c.instructions) :
        /\ \A j \in 1 .. Len(c.instructions[k].qubits) :
              c.instructions[k].qubits[j] < c.num_qubits
        /\ c.instructions[k].gate.gate_type = "Measure"
              => \A j \in 1 .. Len(c.instructions[k].clbits) :
                    c.instructions[k].clbits[j] < c.num_clbits

(* C17: every circuit the builder's public methods produce names only      *)
(* qubits below num_qubits and, in its Measure instructions, classical     *)
(* bits below num_clbits, and executing it never indexes out of range.     *)
C17_BuilderKeepsIndicesInRange == InRange(circuit) /\ ret # "panic"

(* the first half of the circuit at hand                                   *)
FirstHalf == [circuit EXCEPT !.instructions = SubSeq(@, 1, Len(@) \div 2)]

(* the circuit at hand is a circuit of unitary gates on valid qubits       *)
(* followed by what inverse returns for it                                 *)
RoundTrip ==
    /\ Len(Instructions) >= 2
    /\ Len(Instructions) % 2 = 0
    /\ InRange(FirstHalf)
    /\ \A k \in 1 .. Len(Instructions) \div 2 : TypeAt(k) \in UnitaryTypes
    /\ circuit = compose(FirstHalf, inverse(FirstHalf)).circuit

(* a and b are the same state up to one phase factor                       *)
SameUpToPhase(a, b) ==
    /\ Indices(a) = Indices(b)
    /\ \A i, j \in Indices(a) :
          CEq(CMul(a.amplitudes[i], b.amplitudes[j]),
              CMul(a.amplitudes[j], b.amplitudes[i]))
    /\ \A i \in Indices(a) : REq(probability(a, i), probability(b, i))

(* C18: running a circuit C of unitary gates followed by C.inverse()       *)
(* returns the state the run started from, up to one global phase.         *)
C18_InverseUndoes == (RunReturned /\ RoundTrip) => SameUpToPhase(state, input)

(* C20: run_from_state with a state whose qubit count differs from the     *)
(* circuit's returns QubitMismatch (expected the circuit's count, got the  *)
(* state's), leaves the state as given and draws no random number.         *)
C20_MismatchRejectedFirst ==
    (call.op = "run_from_state" /\ input.num_qubits # circuit.num_qubits)
    => /\ ret = "QubitMismatch"
       /\ sim = before
       /\ run_from_state(before.rng_state, circuit, input).expected = circuit.num_qubits
       /\ run_from_state(before.rng_state, circuit, input).got = input.num_qubits
       /\ run_from_state(before.rng_state, circuit, input).state = input
       /\ run_from_state(before.rng_state, circuit, input).rng_state = before.rng_state

(* C20 witness: run_from_state was given a state of two qubits for a       *)
(* circuit of one qubit that measures, and returned QubitMismatch with the *)
(* generator where it was.                                                 *)
C20_Witness ==
    /\ call.op = "run_from_state"
    /\ ret = "QubitMismatch"
    /\ circuit.num_qubits = 1 /\ input = uniform(2)
    /\ \E k \in 1 .. Len(Instructions) : TypeAt(k) = "Measure"
    /\ sim.rng_state = before.rng_state

(* the list from_amplitudes was called with                                *)
Raw == call.args[1]

(* the sum of |a|^2 over the entries of a list, in list order              *)
RECURSIVE ListNormSqr(_, _)
ListNormSqr(list, n) ==
    IF n = 0 THEN RZero ELSE RAdd(ListNormSqr(list, n - 1), norm_sqr(list[n]))

(* x is a number and at most the tolerance 1e-10 away from 1               *)
WithinTolerance(x) ==
    /\ IsFinite(x)
    /\ RLess(RMul(RAbs(RSub(x, ROne)), RInt(TOL_SCALE)), ROne)
    /\ ~RLess(ROne, RMul(RMul(RAbs(RSub(x, ROne)), RInt(TOL_SCALE)), RInt(TOL_SCALE)))

(* C19: from_amplitudes fails with StateDimensionMismatch when the length  *)
(* of the list is 0 or no power of two, else with StateNotNormalized when  *)
(* the sum of |a|^2 is not within the tolerance of 1, and else succeeds    *)
(* with num_qubits = log2(length) and the amplitudes as given.             *)
C19_FromAmplitudesValidates ==
    call.op = "from_amplitudes"
    => IF Len(Raw) = 0 \/ ~(\E k \in 0 .. Len(Raw) : Pow2(k) = Len(Raw))
       THEN ret = "StateDimensionMismatch"
       ELSE IF ~WithinTolerance(ListNormSqr(Raw, Len(Raw)))
       THEN ret = "StateNotNormalized"
       ELSE /\ ret = "Ok"
            /\ Pow2(state.num_qubits) = Len(Raw)
            /\ \A i \in 1 .. Len(Raw) : state.amplitudes[i - 1] = Raw[i]

(* the number of qubits of the register the last call asked for            *)
Requested == IF call.op = "new" THEN call.args[1] ELSE call.args[1].num_qubits

(* C21: constructing a state vector, or running a circuit, with more than  *)
(* MAX_QUBITS qubits is rejected with an error value and no amplitude      *)
(* array is built.                                                         *)
C21_LargeRegisterRejected ==
    (call.op \in {"new", "run", "run_with_measurements"} /\ Requested > MAX_QUBITS)
    => ret = "CircuitTooLarge" /\ state = prev

(* two stores hold equal amplitudes                                        *)
SameAmplitudes(a, b) ==
    /\ Indices(a) = Indices(b)
    /\ \A i \in Indices(a) : CEq(a.amplitudes[i], b.amplitudes[i])

(* the last two store operations were apply_single(q, m) with the same q   *)
(* and m: the store before the last one is what m on q makes of the store  *)
(* the operations started from                                             *)
AppliedTwice(m) ==
    /\ calls = 2
    /\ call.op = "apply_single"
    /\ call.args[2] = m
    /\ prev = apply_single(input, call.args[1], m)

(* C22: H twice, or X twice, on the same qubit gives every amplitude the   *)
(* value it had before; from |0> that is probability 1 at index 0 and 0 at *)
(* index 1.                                                                *)
C22_TwiceRestores ==
    (AppliedTwice(H_MATRIX) \/ AppliedTwice(X_MATRIX))
    => /\ SameAmplitudes(state, input)
       /\ input = new(1) => /\ REq(probability(state, 0), ROne)
                            /\ REq(probability(state, 1), RZero)

C22_Witness ==
    /\ AppliedTwice(H_MATRIX)
    /\ input \notin {new(n) : n \in 1 .. MaxStoreQubits}
    /\ ~SameAmplitudes(prev, input)
    /\ SameAmplitudes(state, input)

(* row r of the 2x2 matrix m applied to the pair (a0, a1)                  *)
RowOf(m, r, a0, a1) == CAdd(CMul(m[r][1], a0), CMul(m[r][2], a1))

(* a and b are the same value: equal numbers, or a NaN in the same place    *)
SameValue(a, b) == a = b \/ CEq(a, b)

(* after is m acting on qubit q of old, and the identity on the other     *)
(* qubits                                                                  *)
ActsOnQubit(old, after, q, m) ==
    /\ Indices(after) = Indices(old)
    /\ \A i \in Indices(old) :
          Bit(i, q) = 0
          => /\ SameValue(after.amplitudes[i],
                          RowOf(m, 1, old.amplitudes[i], old.amplitudes[i + Pow2(q)]))
             /\ SameValue(after.amplitudes[i + Pow2(q)],
                          RowOf(m, 2, old.amplitudes[i], old.amplitudes[i + Pow2(q)]))

(* C23: apply_single(q, M) replaces each pair (amp[i], amp[i | 2^q]) with  *)
(* bit q of i = 0 by M applied to the values the pair held before the      *)
(* call, each pair once.                                                   *)
C23_ApplySingle ==
    call.op = "apply_single" => ActsOnQubit(prev, state, call.args[1], call.args[2])

C23_Witness ==
    /\ call.op = "apply_single"
    /\ call.args = <<1, H_MATRIX>>
    /\ state.num_qubits = 2
    /\ \A i \in Indices(state) : ~CEq(state.amplitudes[i], prev.amplitudes[i])
    /\ \E i, j \in Indices(prev) : ~CEq(prev.amplitudes[i], prev.amplitudes[j])

(* the Fredkin permutation: bits t1 and t2 exchanged when bit c is 1       *)
FredkinIndex(i, c, t1, t2) == IF Bit(i, c) = 1 THEN SwapBits(i, t1, t2) ELSE i

(* C24: on every basis input and every ordering of three distinct qubits,  *)
(* CSWAP leaves all the probability at the index with bits t1 and t2       *)
(* exchanged when the control bit is 1, and at the input index otherwise.  *)
C24_FredkinTruthTable ==
    (RanOne("CSwap") /\ BasisInput)
    => AllAt(state, FredkinIndex(BasisIndex, QubitsAt(1)[1], QubitsAt(1)[2],
                                 QubitsAt(1)[3]))

(* C24 witness: cswap(2, 0, 1) ran on |101> and left the probability at    *)
(* |110>.                                                                  *)
C24_Witness ==
    /\ RanOne("CSwap")
    /\ QubitsAt(1) = <<2, 0, 1>>
    /\ IsBasis(input, 5)
    /\ AllAt(state, 6)

(* the generator state x stepped k times                                   *)
RECURSIVE SteppedTimes(_, _)
SteppedTimes(x, k) == IF k = 0 THEN x ELSE XorShift(SteppedTimes(x, k - 1))

(* the instructions that draw                                              *)
IsDrawing(inst) == inst.gate.gate_type \in {"Measure", "Reset"}

(* the number of Measure and Reset instructions among the first i          *)
RECURSIVE DrawingUpTo(_, _)
DrawingUpTo(insts, i) ==
    IF i = 0 THEN 0
    ELSE DrawingUpTo(insts, i - 1) + (IF IsDrawing(insts[i]) THEN 1 ELSE 0)

(* The state the instructions from position i on leave when the k-th       *)
(* Measure or Reset is given the k-th draw of the generator started at     *)
(* start, and no other instruction draws.                                  *)
RECURSIVE Scheduled(_, _, _, _)
Scheduled(insts, i, start, sv) ==
    IF i > Len(insts) THEN sv
    ELSE IF insts[i].gate.gate_type = "Measure" THEN
        Scheduled(insts, i + 1, start,
                  measure(sv, insts[i].qubits[1],
                          DrawOf(SteppedTimes(start, DrawingUpTo(insts, i)))).state)
    ELSE IF insts[i].gate.gate_type = "Reset" THEN
        Scheduled(insts, i + 1, start,
                  reset(sv, insts[i].qubits[1],
                        DrawOf(SteppedTimes(start, DrawingUpTo(insts, i)))))
    ELSE Scheduled(insts, i + 1, start,
                   ApplyKernels(sv, gate_kernels(insts[i].gate, insts[i].qubits)))

(* C25: a successful execution steps the generator once per Measure and    *)
(* per Reset instruction, in instruction order, and not at all for gates   *)
(* and Barrier: the generator ends at its state before the call stepped    *)
(* (#Measure + #Reset) times, and the k-th Measure or Reset gets the k-th  *)
(* draw.                                                                   *)
C25_OneDrawPerMeasureAndReset ==
    (call.op = "run_with_measurements" /\ ret = "Ok")
    => /\ sim.rng_state =
             SteppedTimes(before.rng_state,
                          DrawingUpTo(circuit.instructions, Len(circuit.instructions)))
       /\ state = Scheduled(circuit.instructions, 1, before.rng_state,
                            new(circuit.num_qubits))

(* C25 witness: a circuit with a gate, a Measure and a Reset was executed  *)
(* and the generator is two steps from where it was.                       *)
C25_Witness ==
    /\ call.op = "run_with_measurements" /\ ret = "Ok"
    /\ Len(circuit.instructions) = 3
    /\ circuit.instructions[1].gate.gate_type = "H"
    /\ circuit.instructions[2].gate.gate_type = "Measure"
    /\ circuit.instructions[3].gate.gate_type = "Reset"
    /\ sim.rng_state = XorShift(XorShift(before.rng_state))
    /\ sim.rng_state # before.rng_state

(* the last call drew: the generator state is the x of its last draw, and  *)
(* the value handed to measure or reset was DrawOf(x)                      *)
LastDraw == DrawOf(sim.rng_state)

(* C26: every value the generator hands to measure or reset is at least 0  *)
(* and strictly less than 1.                                               *)
C26_DrawInUnitInterval ==
    (call.op \in {"run", "run_with_measurements"} /\ sim.rng_state # before.rng_state)
    => InUnitInterval(LastDraw)

(* the qubit indices the last store operation was given                    *)
IndicesGiven ==
    IF call.op \in {"apply_controlled", "apply_two"} THEN {call.args[1], call.args[2]}
    ELSE {call.args[1]}

(* C27: an amplitude-store operation given a qubit index >= num_qubits     *)
(* faults with an out-of-range access and does not return normally.        *)
C27_OutOfRangeFaults ==
    (/\ call.op \in {"apply_single", "apply_two", "apply_controlled", "measure", "reset"}
     /\ ~IsPanic(prev)
     /\ \E q \in IndicesGiven : q >= prev.num_qubits)
    => IsPanic(state)

(* every amplitude of the store is a finite number                         *)
AllFinite(sv) ==
    \A i \in Indices(sv) : IsFinite(sv.amplitudes[i].re) /\ IsFinite(sv.amplitudes[i].im)

C29_RemeasureRepeats ==
    (calls = 2 /\ call.op = "measure")
    => \A r \in DoubleDraws :
          prev = measure_f64(input, call.args[1], r).state
          => /\ outcome = measure_f64(input, call.args[1], r).result
             /\ state = prev

(* the inverse of x ^= x << k and of x ^= x >> k on 64 bits: since the     *)
(* shifts truncate, y ^ (y << k) ^ (y << 2k) ^ ... ends after 64 / k terms *)
RECURSIVE UnXorShl(_, _)
UnXorShl(y, k) == IF y = {} THEN {} ELSE Xor(y, UnXorShl(Shl(y, k), k))
RECURSIVE UnXorShr(_, _)
UnXorShr(y, k) == IF y = {} THEN {} ELSE Xor(y, UnXorShr(Shr(y, k), k))
UnXorShift(y) == UnXorShl(UnXorShr(UnXorShl(y, 17), 7), 13)

(* the generator states within k steps of x                                *)
StepsAhead == 3
Ahead(x) == {SteppedTimes(x, k) : k \in 0 .. StepsAhead}

(* C30: the generator step yields state 0 iff the state before it was 0.   *)
(* An executor seeded with a nonzero value (or built by new) never has     *)
(* generator state 0, whatever number of draws it made; an executor built  *)
(* with seed 0 stays at state 0 and every draw it produces is exactly 0.   *)
(* The step is undone by UnXorShift on the generator's state, on the       *)
(* states ahead of it and on every one-bit state, the basis of the states  *)
(* under xor, so no state other than 0 steps to 0.                         *)
C30_ZeroStateIsFixed ==
    /\ \A x \in Ahead(sim.rng_state) \cup Ahead(before.rng_state) :
          /\ (XorShift(x) = {}) <=> (x = {})
          /\ UnXorShift(XorShift(x)) = x
    /\ \A i \in U64Bits : UnXorShift(XorShift({i})) = {i}
    /\ sim.seed # <<{}>> =>
          \A x \in Ahead(sim.rng_state) \cup Ahead(before.rng_state) : x # {}
    /\ sim.seed = <<{}>> =>
          /\ before.rng_state = {}
          /\ \A x \in Ahead(sim.rng_state) : x = {} /\ next_random(x).value = RZero

(* C30 witness: an executor built with seed 0 executed the measured Bell   *)
(* circuit, drawing twice, and its generator is still at state 0; both     *)
(* draws were 0, so both recorded bits are 0.                              *)
C30_Witness ==
    /\ sim.seed = <<{}>>
    /\ call.op = "run_with_measurements" /\ ret = "Ok"
    /\ circuit = BellMeasured
    /\ sim.rng_state = {}
    /\ measurements = <<0, 0>>
============================================================================
